---- MODULE Spec2Model ----
(***************************************************************************)
(* A model of vbolt: the Index (a bidirectional term <-> target multimap   *)
(* with priorities and per-term counts) kept in one raw bolt bucket, and   *)
(* the prefix iteration engine it is read through.                         *)
(*                                                                         *)
(* Keys and values are byte strings (sequences of 0..255).  A raw bucket   *)
(* is the sequence of its entries (key, value) in lexicographic byte order *)
(* of the keys, the order bolt keeps them in and its cursor walks.         *)
(***************************************************************************)
EXTENDS Integers, Sequences, FiniteSets, TLC

VARIABLES
    bkt,    \* the raw sub-bucket of the index: its entries in key order
    rel,    \* ghost: for each target, the map of its most recent SetTargetTerms
    last,   \* ghost: the last call made, its arguments and what it returned
    script, \* ghost: how many calls of the test's scenario have been made, when
            \* the calls made so far are exactly those; -1 otherwise
    wtx,    \* the open writable transaction (bolt allows one at a time): its
            \* working copy of the bucket and what its callback has left to do
    rtx,    \* an open read-only transaction: the snapshot it reads
    kv,     \* ghost: for each id of a typed bucket, its most recent Write
    db,     \* the database file: for each sub-bucket that exists, its entries
    proc    \* the callers of ApplyDBProcess and RunProcess: where each of
            \* them stands, and who holds the mutex _takeTurns

vars == <<bkt, rel, last, script, wtx, rtx, kv, db, proc>>

(***************************************************************************)
(* Byte strings                                                            *)
(***************************************************************************)

\* Go's nil []byte.  len(nil) = 0, and bolt never stores an empty key, so a
\* nil key and an empty key are the same thing wherever the code looks.
Nil == <<>>

\* bytes.HasPrefix
HasPrefix(key, prefix) ==
    /\ Len(prefix) <= Len(key)
    /\ \A i \in 1..Len(prefix) : key[i] = prefix[i]

\* bytes.Compare(a, b) < 0: the order bolt keeps its keys in
RECURSIVE BytesLessFrom(_, _, _)
BytesLessFrom(a, b, i) ==
    IF i > Len(a) THEN i <= Len(b)
    ELSE IF i > Len(b) THEN FALSE
    ELSE IF a[i] # b[i] THEN a[i] < b[i]
    ELSE BytesLessFrom(a, b, i + 1)

BytesLess(a, b) == BytesLessFrom(a, b, 1)

(***************************************************************************)
(* The codecs the index is built with (package vpack).  A PackFn both      *)
(* writes and reads; each is modelled as a writer and a reader.  A reader  *)
(* takes the data and the position of the next byte (1-based) and returns  *)
(* the value and the position after it.                                    *)
(***************************************************************************)

ByteAt(data, i) == IF i >= 1 /\ i <= Len(data) THEN data[i] ELSE 0

\* vpack.StringZ: the bytes of the string, then a zero byte
StringZ(s) == s \o <<0>>

ReadStringZ(data, pos) ==
    LET ends == {i \in pos..Len(data) : data[i] = 0}
        z    == IF ends = {} THEN Len(data) + 1
                ELSE CHOOSE i \in ends : \A j \in ends : i <= j
    IN  [val |-> SubSeq(data, pos, z - 1), pos |-> z + 1]

\* vpack.FUInt16: two bytes, big endian
FUInt16(p) == <<(p \div 256) % 256, p % 256>>

ReadFUInt16(data, pos) ==
    [val |-> ByteAt(data, pos) * 256 + ByteAt(data, pos + 1), pos |-> pos + 2]

\* vpack.Int: a signed varint (zig-zag, then base-128 little-endian groups)
ZigZag(n) == IF n >= 0 THEN 2 * n ELSE -2 * n - 1

UnZigZag(u) == IF u % 2 = 0 THEN u \div 2 ELSE -((u + 1) \div 2)

RECURSIVE UVarint(_)
UVarint(x) ==
    IF x < 128 THEN <<x>> ELSE <<(x % 128) + 128>> \o UVarint(x \div 128)

RECURSIVE ReadUVarint(_, _)
ReadUVarint(data, pos) ==
    LET b == ByteAt(data, pos)
    IN  IF b < 128 THEN [val |-> b, pos |-> pos + 1]
        ELSE LET r == ReadUVarint(data, pos + 1)
             IN  [val |-> (b - 128) + 128 * r.val, pos |-> r.pos]

VInt(n) == UVarint(ZigZag(n))

ReadVInt(data, pos) ==
    LET r == ReadUVarint(data, pos) IN [val |-> UnZigZag(r.val), pos |-> r.pos]

\* The index of the test: Index(&dbInfo, "idx1", vpack.StringZ, vpack.Int),
\* and Index() fixes the priority codec to vpack.FUInt16.
TermPackFn(term) == StringZ(term)

TermUnpackFn(data, pos) == ReadStringZ(data, pos)

TargetPackFn(target) == VInt(target)

TargetUnpackFn(data, pos) == ReadVInt(data, pos)

PriorityPackFn_littleEndian(priority) == <<priority % 256, (priority \div 256) % 256>>

PriorityPackFn(priority) == FUInt16(priority)

PriorityUnpackFn(data, pos) == ReadFUInt16(data, pos)

\* var PackCountFn = vpack.Int
PackCountFn(count) == VInt(count)

UnpackCountFn(data, pos) == ReadVInt(data, pos)

(***************************************************************************)
(* The raw bucket and its cursor (bolt.Bucket, bolt.Cursor)                *)
(***************************************************************************)

\* the number of keys of b below key: the entry for key, if any, follows them
Rank(b, key) == Cardinality({i \in 1..Len(b) : BytesLess(b[i].key, key)})

HasEntry(b, key) ==
    LET i == Rank(b, key) + 1 IN i <= Len(b) /\ b[i].key = key

\* bkt.Get: nil when the key is absent
Get(b, key) == IF HasEntry(b, key) THEN b[Rank(b, key) + 1].value ELSE Nil

\* bkt.Put
Put(b, key, value) ==
    LET i == Rank(b, key) + 1
        e == [key |-> key, value |-> value]
    IN  IF HasEntry(b, key) THEN [b EXCEPT ![i] = e]
        ELSE SubSeq(b, 1, i - 1) \o <<e>> \o SubSeq(b, i, Len(b))

\* bkt.Delete: deleting an absent key is a no-op
Delete(b, key) ==
    LET i == Rank(b, key) + 1
    IN  IF HasEntry(b, key) THEN SubSeq(b, 1, i - 1) \o SubSeq(b, i + 1, Len(b))
        ELSE b

\* A cursor over b is a position: 1..Len(b) is on an entry, Len(b)+1 is past
\* the last entry and 0 is before the first; off the entries the cursor's key
\* is nil.  (After Next returns nil bolt leaves its cursor on the last key; no
\* caller here steps a cursor that returned nil, except Prev after a Seek past
\* the end, which bolt answers with the last key, as this model does.)
CursorKey(b, pos) == IF pos >= 1 /\ pos <= Len(b) THEN b[pos].key ELSE Nil

CursorFirst(b) == 1

CursorLast(b) == Len(b)

\* the first entry whose key is not below seek
CursorSeek(b, seek) == Rank(b, seek) + 1

CursorNext(b, pos) == IF pos <= Len(b) THEN pos + 1 ELSE pos

CursorPrev(b, pos) == IF pos >= 1 THEN pos - 1 ELSE pos

(***************************************************************************)
(* raw.go: the prefix iteration engine                                     *)
(***************************************************************************)

IterateRegular == 0

IterateReverse == 1

_CursorStartPos(b, direction) ==
    IF direction = IterateRegular THEN CursorFirst(b) ELSE CursorLast(b)

_NextPrefix_noAppend(prefix) ==
    LET lt == {i \in 1..Len(prefix) : prefix[i] # 255}
    IN  IF lt # {}
        THEN LET i == CHOOSE x \in lt : \A y \in lt : y <= x
             IN  [prefix EXCEPT ![i] = prefix[i] + 1]
        ELSE prefix

_NextPrefix_appendZero(prefix) == Append(prefix, 0)

_NextPrefix(prefix) ==
    LET lt == {i \in 1..Len(prefix) : prefix[i] # 255}
    IN  IF lt # {}
        THEN LET i == CHOOSE x \in lt : \A y \in lt : y <= x
             IN  [prefix EXCEPT ![i] = prefix[i] + 1]
        ELSE Append(prefix, 0)

_CursorStartPosForPrefix(b, prefix, direction) ==
    IF Len(prefix) = 0 THEN _CursorStartPos(b, direction)
    ELSE IF direction = IterateRegular THEN CursorSeek(b, prefix)
    ELSE CursorPrev(b, CursorSeek(b, _NextPrefix(prefix)))

_CursorStep(b, pos, direction) ==
    IF direction = IterateRegular THEN CursorNext(b, pos)
    ELSE CursorPrev(b, pos)

\* type Window struct { Limit, Offset, Cursor, Direction }
Window(limit, offset, cursor, direction) ==
    [Limit |-> limit, Offset |-> offset, Cursor |-> cursor, Direction |-> direction]

ZeroWindow == Window(0, 0, Nil, IterateRegular)

OffsetWalk_noSkip(b, pos, direction, todo) == [ok |-> TRUE, pos |-> pos]

\* The offset loop: step Offset times; ok is FALSE when a step returned nil
\* (the function then returns nil at once).
RECURSIVE OffsetWalk(_, _, _, _)
OffsetWalk(b, pos, direction, todo) ==
    IF todo <= 0 THEN [ok |-> TRUE, pos |-> pos]
    ELSE LET p == _CursorStep(b, pos, direction)
         IN  IF CursorKey(b, p) = Nil THEN [ok |-> FALSE, pos |-> p]
             ELSE OffsetWalk(b, p, direction, todo - 1)

RECURSIVE VisitLoop_limitPlusOne(_, _, _, _, _, _, _)
VisitLoop_limitPlusOne(b, prefix, w, haltAt, pos, count, visited) ==
    LET key == CursorKey(b, pos)
    IN  IF key = Nil \/ ~HasPrefix(key, prefix)
        THEN [visited |-> visited, pos |-> pos]
        ELSE LET seen == Append(visited, b[pos])
             IN  IF haltAt > 0 /\ Len(seen) = haltAt
                 THEN [visited |-> seen, pos |-> pos]
                 ELSE IF w.Limit > 0 /\ count + 1 > w.Limit
                 THEN [visited |-> seen, pos |-> pos]
                 ELSE VisitLoop_limitPlusOne(b, prefix, w, haltAt,
                                             _CursorStep(b, pos, w.Direction),
                                             count + 1, seen)

RECURSIVE VisitLoop_ignoreHalt(_, _, _, _, _, _, _)
VisitLoop_ignoreHalt(b, prefix, w, haltAt, pos, count, visited) ==
    LET key == CursorKey(b, pos)
    IN  IF key = Nil \/ ~HasPrefix(key, prefix)
        THEN [visited |-> visited, pos |-> pos]
        ELSE LET seen == Append(visited, b[pos])
             IN  IF w.Limit > 0 /\ count + 1 >= w.Limit
                 THEN [visited |-> seen, pos |-> pos]
                 ELSE VisitLoop_ignoreHalt(b, prefix, w, haltAt,
                                           _CursorStep(b, pos, w.Direction),
                                           count + 1, seen)

\* The visiting loop.  The visitor is called with each entry in turn; haltAt
\* is the call at which it returns false (0: it never does).  Returns the
\* entries the visitor was called with and the position the loop ended on.
RECURSIVE VisitLoop(_, _, _, _, _, _, _)
VisitLoop(b, prefix, w, haltAt, pos, count, visited) ==
    LET key == CursorKey(b, pos)
    IN  IF key = Nil \/ ~HasPrefix(key, prefix)
        THEN [visited |-> visited, pos |-> pos]
        ELSE LET seen == Append(visited, b[pos])
             IN  IF haltAt > 0 /\ Len(seen) = haltAt
                 THEN [visited |-> seen, pos |-> pos]
                 ELSE IF w.Limit > 0 /\ count + 1 >= w.Limit
                 THEN [visited |-> seen, pos |-> pos]
                 ELSE VisitLoop(b, prefix, w, haltAt,
                                _CursorStep(b, pos, w.Direction),
                                count + 1, seen)

\* "returns the next key that should be visited to continue the iteration"
ResumeKey_noStep(b, pos, direction) == CursorKey(b, pos)

ResumeKey_alwaysNil(b, pos, direction) == Nil

ResumeKey(b, pos, direction) ==
    IF CursorKey(b, pos) # Nil
    THEN CursorKey(b, _CursorStep(b, pos, direction))
    ELSE Nil

_RawIterateCore_ignoreCursor(b, prefix, w, haltAt) ==
    LET pos0 == _CursorStartPosForPrefix(b, prefix, w.Direction)
        off  == IF w.Offset > 0
                THEN OffsetWalk(b, pos0, w.Direction, w.Offset)
                ELSE [ok |-> TRUE, pos |-> pos0]
    IN  IF ~off.ok THEN [visited |-> <<>>, next |-> Nil]
        ELSE LET r == VisitLoop(b, prefix, w, haltAt, off.pos, 0, <<>>)
             IN  [visited |-> r.visited,
                  next    |-> ResumeKey(b, r.pos, w.Direction)]

\* _RawIterateCore(bkt, {Prefix, Window}, visitFn): the entries visited, in
\* the order visited, and the returned key.
_RawIterateCore(b, prefix, w, haltAt) ==
    LET start == IF Len(w.Cursor) > 0 THEN w.Cursor ELSE prefix
        pos0  == _CursorStartPosForPrefix(b, start, w.Direction)
        off   == IF w.Offset > 0
                 THEN OffsetWalk(b, pos0, w.Direction, w.Offset)
                 ELSE [ok |-> TRUE, pos |-> pos0]
    IN  IF ~off.ok THEN [visited |-> <<>>, next |-> Nil]
        ELSE LET r == VisitLoop(b, prefix, w, haltAt, off.pos, 0, <<>>)
             IN  [visited |-> r.visited,
                  next    |-> ResumeKey(b, r.pos, w.Direction)]

(***************************************************************************)
(* The index: key layout                                                   *)
(***************************************************************************)

IndexTermPrefix == 1

IndexTargetPrefix == 2

IndexCountPrefix == 3

_TermKeyPrefix_noTerm(term) == <<IndexTermPrefix>>

_TermKeyPrefix(term) == <<IndexTermPrefix>> \o TermPackFn(term)

_TargetKeyPrefix_noTarget(target) == <<IndexTargetPrefix>>

_TargetKeyPrefix(target) == <<IndexTargetPrefix>> \o TargetPackFn(target)

_TermTargetKey(target, term, priority) ==
    <<IndexTermPrefix>> \o TermPackFn(term) \o PriorityPackFn(priority)
        \o TargetPackFn(target)

_TermCountKey(term) == <<IndexCountPrefix>> \o TermPackFn(term)

\* skips the prefix byte, then reads the target and the term
_ReadTargetTerm(data) ==
    LET k == TargetUnpackFn(data, 2)
        t == TermUnpackFn(data, k.pos)
    IN  [target |-> k.val, term |-> t.val]

_TargetTermKey(target, term) ==
    <<IndexTargetPrefix>> \o TargetPackFn(target) \o TermPackFn(term)

_ReadTermTargetPriority_targetFirst(data) ==
    LET t == TermUnpackFn(data, 2)
        k == TargetUnpackFn(data, t.pos)
        p == PriorityUnpackFn(data, k.pos)
    IN  [term |-> t.val, target |-> k.val, priority |-> p.val]

\* skips the prefix byte, then reads the term, the priority and the target
_ReadTermTargetPriority(data) ==
    LET t == TermUnpackFn(data, 2)
        p == PriorityUnpackFn(data, t.pos)
        k == TargetUnpackFn(data, p.pos)
    IN  [term |-> t.val, target |-> k.val, priority |-> p.val]

(***************************************************************************)
(* The index: counts and pairs                                             *)
(***************************************************************************)

\* vpack.FromBytesInto(v, &count, PackCountFn) on nil leaves count at zero
CountOf(v) == IF v = Nil THEN 0 ELSE UnpackCountFn(v, 1).val

_IncTermCount_overwrite(b, term, increment) ==
    Put(b, _TermCountKey(term), PackCountFn(increment))

_IncTermCount_deleteZero(b, term, increment) ==
    LET key   == _TermCountKey(term)
        count == CountOf(Get(b, key)) + increment
    IN  IF count = 0 THEN Delete(b, key) ELSE Put(b, key, PackCountFn(count))

_IncTermCount(b, term, increment) ==
    LET key   == _TermCountKey(term)
        count == CountOf(Get(b, key)) + increment
    IN  Put(b, key, PackCountFn(count))

ReadTermCount(b, term) ==
    LET v == Get(b, _TermCountKey(term))
    IN  [present |-> v # Nil, count |-> CountOf(v)]

_AddTargetTermPair_noValue(b, target, term, priority) ==
    Put(Put(b, _TermTargetKey(target, term, priority), Nil),
        _TargetTermKey(target, term), Nil)

_AddTargetTermPair(b, target, term, priority) ==
    LET val == PriorityPackFn(priority)
    IN  Put(Put(b, _TermTargetKey(target, term, priority), Nil),
            _TargetTermKey(target, term), val)

_DelTargetTermPair_reverseOnly(b, target, term, priority) ==
    Delete(b, _TargetTermKey(target, term))

_DelTargetTermPair(b, target, term, priority) ==
    Delete(Delete(b, _TermTargetKey(target, term, priority)),
           _TargetTermKey(target, term))

(***************************************************************************)
(* The index: iteration                                                    *)
(***************************************************************************)

\* A map term -> priority is a function whose domain is its key set.
EmptyMap == <<>>

\* IterateTarget: the (term, priority) pairs handed to the visitor, in order
IterateTarget(b, target, haltAt) ==
    LET r == _RawIterateCore(b, _TargetKeyPrefix(target), ZeroWindow, haltAt)
    IN  [i \in 1..Len(r.visited) |->
            [term     |-> _ReadTargetTerm(r.visited[i].key).term,
             priority |-> PriorityUnpackFn(r.visited[i].value, 1).val]]

\* _IterateTermCore: the (target, priority) pairs handed to the visitor, the
\* keys they were decoded from, and the returned key
_IterateTermCore(b, term, window, haltAt) ==
    LET r == _RawIterateCore(b, _TermKeyPrefix(term), window, haltAt)
    IN  [pairs |-> [i \in 1..Len(r.visited) |->
                      [target   |-> _ReadTermTargetPriority(r.visited[i].key).target,
                       priority |-> _ReadTermTargetPriority(r.visited[i].key).priority]],
         keys  |-> [i \in 1..Len(r.visited) |-> r.visited[i].key],
         next  |-> r.next]

IterateTerm(b, term, haltAt) == _IterateTermCore(b, term, ZeroWindow, haltAt)

\* ReadTermTargets: the visitor appends the target and never halts
ReadTermTargets(b, term, window) ==
    LET r == _IterateTermCore(b, term, window, 0)
    IN  [targets |-> [i \in 1..Len(r.pairs) |-> r.pairs[i].target],
         keys    |-> r.keys,
         next    |-> r.next]

\* ReadTermTargetSingle: ReadTermTargets with Limit 1; whether a target was
\* read, and the target
ReadTermTargetSingle(b, term) ==
    LET r == ReadTermTargets(b, term, Window(1, 0, Nil, IterateRegular))
    IN  [found   |-> Len(r.targets) > 0,
         targets |-> r.targets]

\* IterateAllTerms: the (term, target, priority) triples handed to the visitor
IterateAllTerms(b, haltAt) ==
    LET r == _RawIterateCore(b, <<IndexTermPrefix>>, ZeroWindow, haltAt)
    IN  [i \in 1..Len(r.visited) |-> _ReadTermTargetPriority(r.visited[i].key)]

(***************************************************************************)
(* The index: SetTargetTerms                                               *)
(***************************************************************************)

\* existing[term] = priority for each pair visited (a later one overwrites)
ExistingTerms(b, target) ==
    LET seq == IterateTarget(b, target, 0)
    IN  [t \in {seq[i].term : i \in 1..Len(seq)} |->
            LET idx == {i \in 1..Len(seq) : seq[i].term = t}
            IN  seq[CHOOSE i \in idx : \A j \in idx : j <= i].priority]

DelSet_newPriority(existing, terms) ==
    LET ks == {e \in DOMAIN existing :
                  e \notin DOMAIN terms \/ existing[e] # terms[e]}
    IN  [e \in ks |-> IF e \in DOMAIN terms THEN terms[e] ELSE existing[e]]

DelSet_removedOnly(existing, terms) ==
    LET ks == {e \in DOMAIN existing : e \notin DOMAIN terms}
    IN  [e \in ks |-> existing[e]]

\* del: the existing pairs not requested or requested at another priority,
\* each with its OLD priority
DelSet(existing, terms) ==
    LET ks == {e \in DOMAIN existing :
                  e \notin DOMAIN terms \/ existing[e] # terms[e]}
    IN  [e \in ks |-> existing[e]]

AddSet_all(existing, terms) == terms

\* add: the requested pairs that do not exist or exist at another priority,
\* each with its NEW priority
AddSet(existing, terms) ==
    LET ks == {t \in DOMAIN terms :
                  t \notin DOMAIN existing \/ existing[t] # terms[t]}
    IN  [t \in ks |-> terms[t]]

\* The orders a Go range over a map with key set S may take
MapOrders(S) ==
    {s \in [1..Cardinality(S) -> S] :
        \A i, j \in 1..Cardinality(S) : i # j => s[i] # s[j]}

ApplyDel_firstOnly(b, target, del, order) ==
    IF order = <<>> THEN b
    ELSE LET term == Head(order)
         IN  _IncTermCount(_DelTargetTermPair(b, target, term, del[term]),
                           term, -1)

RECURSIVE ApplyDel(_, _, _, _)
ApplyDel(b, target, del, order) ==
    IF order = <<>> THEN b
    ELSE LET term == Head(order)
         IN  ApplyDel(_IncTermCount(
                          _DelTargetTermPair(b, target, term, del[term]),
                          term, -1),
                      target, del, Tail(order))

RECURSIVE ApplyAdd(_, _, _, _)
ApplyAdd(b, target, add, order) ==
    IF order = <<>> THEN b
    ELSE LET term == Head(order)
         IN  ApplyAdd(_IncTermCount(
                          _AddTargetTermPair(b, target, term, add[term]),
                          term, 1),
                      target, add, Tail(order))

\* The buckets SetTargetTerms may leave: one for each pair of orders its two
\* range loops (over del, then over add) may take
SetTargetTermsOutcomes(b, target, terms) ==
    LET existing == ExistingTerms(b, target)
        del      == DelSet(existing, terms)
        add      == AddSet(existing, terms)
    IN  {ApplyAdd(ApplyDel(b, target, del, delOrder), target, add, addOrder) :
            delOrder \in MapOrders(DOMAIN del), addOrder \in MapOrders(DOMAIN add)}

\* the terms SetTargetTerms finds paired at another priority than requested
Reprioritised(b, target, terms) ==
    LET existing == ExistingTerms(b, target)
    IN  {t \in (DOMAIN existing) \cap (DOMAIN terms) : existing[t] # terms[t]}

(***************************************************************************)
(* The inputs                                                              *)
(***************************************************************************)

\* Terms "a" and "ab": one is a proper prefix of the other.
Terms == {<<97>>, <<97, 98>>}

\* Targets whose varint bytes (20 and 21) order them against their values.
Targets == {10, -11}

\* Priorities whose big-endian bytes, <<0,1>> and <<1,0>>, order as the
\* numbers do and whose little-endian bytes do not.
Prios == {1, 256}

\* the largest Window.Limit tried
MaxLimit == 2

\* every map from some of the terms to priorities
TermMaps == UNION {[T -> Prios] : T \in SUBSET Terms}

\* The scenario of TestIndex: terms "abc", "klm", "lol", "rofl", targets 10
\* and 12, and the three maps it sets.
abc == <<97, 98, 99>>

klm == <<107, 108, 109>>

lol == <<108, 111, 108>>

rofl == <<114, 111, 102, 108>>

S1Terms == {abc, klm, lol, rofl}

S1Targets == {10, 12}

MapOf(pairs) ==
    [t \in {p[1] : p \in pairs} |-> (CHOOSE p \in pairs : p[1] = t)[2]]

S1Script ==
    << [target |-> 10, terms |-> MapOf({<<abc, 1>>, <<lol, 2>>})],
       [target |-> 12, terms |-> MapOf({<<abc, 2>>, <<klm, 10>>, <<lol, 5>>})],
       [target |-> 10, terms |-> MapOf({<<lol, 4>>, <<rofl, 7>>})] >>

\* the maps of the scenario, and the empty map
S1Maps == {EmptyMap} \cup {S1Script[i].terms : i \in 1..Len(S1Script)}

AllTargets == Targets \cup S1Targets

(***************************************************************************)
(* The state machine                                                       *)
(***************************************************************************)

\* no transaction is open
NoTx == [state |-> "closed"]

\* a typed bucket nothing was written to
NoItems == <<>>

\* a database file without sub-buckets
NoBuckets == <<>>

\* the most goroutines calling ApplyDBProcess or RunProcess, and the most
\* calls each of them makes
MaxCallers == 2
MaxCalls == 2

Callers == 1..MaxCallers

\* the process names tried: "" (the zero value of a string) and "a"
ProcNames == {Nil, <<97>>}

\* nobody has called yet and the mutex is free
NoCalls ==
    [mutex |-> 0,
     pc    |-> [c \in Callers |-> "idle"],
     kind  |-> [c \in Callers |-> "none"],
     name  |-> [c \in Callers |-> Nil],
     left  |-> [c \in Callers |-> MaxCalls],
     runs  |-> [n \in ProcNames |-> 0],
     completed |-> {}]

Init ==
    /\ bkt = <<>>
    /\ rel = [k \in AllTargets |-> EmptyMap]
    /\ last = [op |-> "none"]
    /\ script = 0
    /\ wtx = NoTx
    /\ rtx = NoTx
    /\ kv = NoItems
    /\ db = NoBuckets
    /\ proc = NoCalls

ScriptAfter(target, terms) ==
    IF /\ script >= 0
       /\ script < Len(S1Script)
       /\ S1Script[script + 1] = [target |-> target, terms |-> terms]
    THEN script + 1
    ELSE -1

\* A read leaves bkt, rel and script as they are, so a call made after a read
\* does what it does when made straight after the last write: calls are
\* explored from the state the last write left (AfterWrite), and a read is
\* followed only by the call that resumes it.
AfterWrite == last.op \in {"none", "SetTargetTerms"}

\* SetTargetTerms(tx, indexInfo, target, terms)
SetTargetTerms(target, terms) ==
    /\ AfterWrite
    /\ bkt' \in SetTargetTermsOutcomes(bkt, target, terms)
    /\ rel' = [rel EXCEPT ![target] = terms]
    /\ last' = [op     |-> "SetTargetTerms",
                target |-> target,
                terms  |-> terms,
                repri  |-> Reprioritised(bkt, target, terms)]
    /\ script' = ScriptAfter(target, terms)
    /\ UNCHANGED <<wtx, rtx, kv, db, proc>>

\* DeleteTargetTerms(tx, indexInfo, target): SetTargetTerms with a nil map
DeleteTargetTerms(target) == SetTargetTerms(target, EmptyMap)

CallIterateTarget(target) ==
    /\ AfterWrite
    /\ last' = [op     |-> "IterateTarget",
                target |-> target,
                pairs  |-> IterateTarget(bkt, target, 0)]
    /\ UNCHANGED <<bkt, rel, script, wtx, rtx, kv, db, proc>>

CallIterateTerm(term) ==
    /\ AfterWrite
    /\ last' = [op    |-> "IterateTerm",
                term  |-> term,
                pairs |-> IterateTerm(bkt, term, 0).pairs,
                next  |-> IterateTerm(bkt, term, 0).next]
    /\ UNCHANGED <<bkt, rel, script, wtx, rtx, kv, db, proc>>

CallIterateAllTerms ==
    /\ AfterWrite
    /\ last' = [op      |-> "IterateAllTerms",
                entries |-> IterateAllTerms(bkt, 0)]
    /\ UNCHANGED <<bkt, rel, script, wtx, rtx, kv, db, proc>>

CallReadTermCount(term) ==
    /\ AfterWrite
    /\ last' = [op      |-> "ReadTermCount",
                term    |-> term,
                present |-> ReadTermCount(bkt, term).present,
                count   |-> ReadTermCount(bkt, term).count]
    /\ UNCHANGED <<bkt, rel, script, wtx, rtx, kv, db, proc>>

\* the windows tried: forward, from the start, with a limit or without
Windows == {Window(limit, 0, Nil, IterateRegular) : limit \in 0..MaxLimit}

CallReadTermTargets(term, window) ==
    LET r == ReadTermTargets(bkt, term, window)
    IN  /\ AfterWrite
        /\ last' = [op      |-> "ReadTermTargets",
                    term    |-> term,
                    window  |-> window,
                    targets |-> r.targets,
                    keys    |-> r.keys,
                    next    |-> r.next]
        /\ UNCHANGED <<bkt, rel, script, wtx, rtx, kv, db, proc>>

\* the caller's next page: the same term, the returned key as the cursor,
\* no limit
CallReadTermTargetsResume ==
    /\ last.op = "ReadTermTargets"
    /\ LET window == Window(0, 0, last.next, last.window.Direction)
           r      == ReadTermTargets(bkt, last.term, window)
       IN  last' = [op      |-> "ReadTermTargetsResume",
                    term    |-> last.term,
                    first   |-> last,
                    window  |-> window,
                    targets |-> r.targets,
                    keys    |-> r.keys,
                    next    |-> r.next]
    /\ UNCHANGED <<bkt, rel, script, wtx, rtx, kv, db, proc>>

Next ==
    \/ \E target \in Targets, terms \in TermMaps : SetTargetTerms(target, terms)
    \/ \E target \in Targets : DeleteTargetTerms(target)
    \/ \E target \in Targets : CallIterateTarget(target)
    \/ \E term \in Terms : CallIterateTerm(term)
    \/ CallIterateAllTerms
    \/ \E term \in Terms : CallReadTermCount(term)
    \/ \E term \in Terms, window \in Windows : CallReadTermTargets(term, window)
    \/ CallReadTermTargetsResume

Spec == Init /\ [][Next]_vars

\* the same index driven with the calls and maps of the test's scenario
NextS1 ==
    \/ \E target \in S1Targets, terms \in S1Maps : SetTargetTerms(target, terms)
    \/ \E target \in S1Targets : DeleteTargetTerms(target)
    \/ \E target \in S1Targets : CallIterateTarget(target)
    \/ \E term \in S1Terms : CallIterateTerm(term)
    \/ CallIterateAllTerms
    \/ \E term \in S1Terms : CallReadTermCount(term)
    \/ \E term \in S1Terms, window \in Windows : CallReadTermTargets(term, window)
    \/ CallReadTermTargetsResume

SpecS1 == Init /\ [][NextS1]_vars

(***************************************************************************)
(* The same index read through every window: a limit, an offset, a cursor  *)
(* and a direction, and through a visitor that halts                       *)
(***************************************************************************)

\* the largest Window.Offset tried
MaxOffset == 2

\* the latest call at which the visitor returns false
MaxHalt == 2

\* The cursors tried: none, and every key a forward row can have, whether the
\* row is in the bucket or not and whether it is a row of the term read or of
\* the other term (a key returned by an earlier call, kept by the caller).
Cursors ==
    {Nil} \cup {_TermTargetKey(k, t, p) : k \in Targets, t \in Terms, p \in Prios}

Directions == {IterateRegular, IterateReverse}

WideWindows ==
    {Window(limit, offset, cursor, direction) :
        limit \in 0..MaxLimit, offset \in 0..MaxOffset,
        cursor \in Cursors, direction \in Directions}

\* IterateTerm with a visitor that returns false at its haltAt-th call
CallIterateTermHalting(term, haltAt) ==
    LET r == IterateTerm(bkt, term, haltAt)
    IN  /\ AfterWrite
        /\ last' = [op     |-> "IterateTermHalting",
                    term   |-> term,
                    haltAt |-> haltAt,
                    pairs  |-> r.pairs,
                    keys   |-> r.keys,
                    next   |-> r.next]
        /\ UNCHANGED <<bkt, rel, script, wtx, rtx, kv, db, proc>>

NextWindow ==
    \/ \E target \in Targets, terms \in TermMaps : SetTargetTerms(target, terms)
    \/ \E target \in Targets : DeleteTargetTerms(target)
    \/ \E term \in Terms, window \in WideWindows :
          CallReadTermTargets(term, window)
    \/ \E term \in Terms, haltAt \in 1..MaxHalt :
          CallIterateTermHalting(term, haltAt)

SpecWindow == Init /\ [][NextWindow]_vars

(***************************************************************************)
(* _NextPrefix on its own: every byte string up to a length, over bytes    *)
(* that include 0x00 and 0xFF, and every string that begins with it        *)
(***************************************************************************)

\* the longest byte string tried
MaxBytesLen == 3

ByteValues == {0, 1, 254, 255}

ByteStrings == UNION {[1..n -> ByteValues] : n \in 0..MaxBytesLen}

\* the input s is chosen, and a string t that begins with s
InitNextPrefix ==
    /\ bkt = <<>>
    /\ rel = [k \in AllTargets |-> EmptyMap]
    /\ script = 0
    /\ wtx = NoTx
    /\ rtx = NoTx
    /\ kv = NoItems
    /\ db = NoBuckets
    /\ proc = NoCalls
    /\ \E s \in ByteStrings, t \in ByteStrings :
          /\ HasPrefix(t, s)
          /\ last = [op |-> "bytes", s |-> s, t |-> t]

\* next := _NextPrefix(v)
CallNextPrefix ==
    /\ last.op = "bytes"
    /\ last' = [op   |-> "_NextPrefix",
                s    |-> last.s,
                t    |-> last.t,
                next |-> _NextPrefix(last.s)]
    /\ UNCHANGED <<bkt, rel, script, wtx, rtx, kv, db, proc>>

SpecNextPrefix == InitNextPrefix /\ [][CallNextPrefix]_vars

(***************************************************************************)
(* What the claims are stated with                                         *)
(***************************************************************************)

AllTerms == Terms \cup S1Terms

\* the entries of b whose key starts with the byte prefix
RowsWith(b, prefix) == {i \in 1..Len(b) : b[i].key[1] = prefix}

\* the forward rows of b, decoded
ForwardRows(b) ==
    {_ReadTermTargetPriority(b[i].key) : i \in RowsWith(b, IndexTermPrefix)}

\* the entries of b that mention target k: its forward and its reverse rows
RowsOfTarget(b, k) ==
    {b[i] : i \in {j \in RowsWith(b, IndexTermPrefix) :
                      _ReadTermTargetPriority(b[j].key).target = k}}
    \cup
    {b[i] : i \in {j \in RowsWith(b, IndexTargetPrefix) :
                      _ReadTargetTerm(b[j].key).target = k}}

\* the terms target k has a forward row under
PairedTerms(b, k) == {r.term : r \in {x \in ForwardRows(b) : x.target = k}}

\* the pairings the calls made so far have left: rel, as triples
Pairings ==
    {[term |-> t, target |-> k, priority |-> rel[k][t]] :
        <<k, t>> \in {<<x, y>> \in AllTargets \X AllTerms : y \in DOMAIN rel[x]}}

SeqSet(seq) == {seq[i] : i \in 1..Len(seq)}

\* seq holds each member of S once and nothing else
ExactlyOnce(seq, S) == SeqSet(seq) = S /\ Len(seq) = Cardinality(S)

(***************************************************************************)
(* C1.  When SetTargetTerms(target, D) has returned, IterateTarget(target) *)
(* yields exactly the pairs (t, D[t]) for the terms t of D: each term of D *)
(* once, with the priority supplied, and no term outside D.                *)
(***************************************************************************)
C1_SetTargetTermsYieldsDesired ==
    last.op = "SetTargetTerms" =>
        ExactlyOnce(IterateTarget(bkt, last.target, 0),
                    {[term |-> t, priority |-> last.terms[t]] :
                        t \in DOMAIN last.terms})

\* a call that replaced one term by another and changed a priority
C1_Witness ==
    /\ last.op = "SetTargetTerms"
    /\ Cardinality(DOMAIN last.terms) = 2
    /\ last.repri # {}
    /\ Len(IterateTarget(bkt, last.target, 0)) = 2

(***************************************************************************)
(* C2.  Forward/reverse agreement, in every state reached from the empty   *)
(* index by SetTargetTerms / DeleteTargetTerms calls: each reverse row     *)
(* (target, term) with value p has exactly one forward row for that        *)
(* (term, target), at priority p; each forward row (term, p, target) has   *)
(* the reverse row (target, term), with value p.                           *)
(***************************************************************************)
C2_ForwardReverseAgree ==
    /\ \A i \in RowsWith(bkt, IndexTargetPrefix) :
          LET tt  == _ReadTargetTerm(bkt[i].key)
              p   == PriorityUnpackFn(bkt[i].value, 1).val
              fwd == {j \in RowsWith(bkt, IndexTermPrefix) :
                         /\ _ReadTermTargetPriority(bkt[j].key).term = tt.term
                         /\ _ReadTermTargetPriority(bkt[j].key).target = tt.target}
          IN  /\ Cardinality(fwd) = 1
              /\ \A j \in fwd : _ReadTermTargetPriority(bkt[j].key).priority = p
    /\ \A j \in RowsWith(bkt, IndexTermPrefix) :
          LET f == _ReadTermTargetPriority(bkt[j].key)
              v == Get(bkt, _TargetTermKey(f.target, f.term))
          IN  /\ HasEntry(bkt, _TargetTermKey(f.target, f.term))
              /\ PriorityUnpackFn(v, 1).val = f.priority

\* both targets paired, after a call that changed a priority
C2_Witness ==
    /\ last.op = "SetTargetTerms"
    /\ last.repri # {}
    /\ Cardinality(RowsWith(bkt, IndexTargetPrefix)) >= 3

(***************************************************************************)
(* C3.  Count consistency, in every state reached from the empty index by  *)
(* SetTargetTerms / DeleteTargetTerms calls: for every term t the count    *)
(* ReadTermCount(t) reads is the number of distinct targets found by       *)
(* scanning the forward rows under t, and is never negative.               *)
(***************************************************************************)
C3_CountConsistent ==
    \A t \in AllTerms :
        LET pairs == IterateTerm(bkt, t, 0).pairs
            count == ReadTermCount(bkt, t).count
        IN  /\ count = Cardinality({pairs[i].target : i \in 1..Len(pairs)})
            /\ count >= 0

\* one term counted twice, another whose last pairing was removed
C3_Witness ==
    /\ \E t \in Terms : ReadTermCount(bkt, t).count = 2
    /\ \E t \in Terms :
          ReadTermCount(bkt, t).present /\ ReadTermCount(bkt, t).count = 0

(***************************************************************************)
(* C4.  SetTargetTerms(target, D) leaves every other target untouched: the *)
(* forward and reverse rows that mention a target other than target are    *)
(* the same before and after the call, and the count of a term changes     *)
(* only by the pairing of target with it that was added or removed.        *)
(***************************************************************************)
C4_OtherTargetsUntouched ==
    [][last'.op = "SetTargetTerms" =>
          /\ \A k \in AllTargets \ {last'.target} :
                RowsOfTarget(bkt', k) = RowsOfTarget(bkt, k)
          /\ \A t \in AllTerms :
                ReadTermCount(bkt', t).count - ReadTermCount(bkt, t).count
                  = (IF t \in PairedTerms(bkt', last'.target) THEN 1 ELSE 0)
                    - (IF t \in PairedTerms(bkt, last'.target) THEN 1 ELSE 0)
      ]_vars

\* a call that changed the terms of one target while the other had two
C4_Witness ==
    /\ last.op = "SetTargetTerms"
    /\ last.terms # EmptyMap
    /\ last.repri # {}
    /\ \E k \in Targets \ {last.target} : Cardinality(RowsOfTarget(bkt, k)) = 4

(***************************************************************************)
(* C5.  SetTargetTerms is idempotent: when SetTargetTerms(target, D) has   *)
(* returned, calling it again with the same target and D leaves the        *)
(* bucket (forward, reverse and count rows) exactly as it is.              *)
(***************************************************************************)
C5_SetTargetTermsIdempotent ==
    last.op = "SetTargetTerms" =>
        SetTargetTermsOutcomes(bkt, last.target, last.terms) = {bkt}

\* the first call did change the index
C5_Witness ==
    /\ last.op = "SetTargetTerms"
    /\ Cardinality(DOMAIN last.terms) = 2
    /\ last.repri # {}
    /\ \E k \in Targets \ {last.target} : rel[k] # EmptyMap

(***************************************************************************)
(* C6.  When SetTargetTerms changes the priority of a term t already       *)
(* paired with target from p_old to another p_new, then afterwards the     *)
(* forward row at p_old is gone, (t, target) has exactly one forward row,  *)
(* at p_new, the reverse row's value is p_new, and the count of t is what  *)
(* it was before the call.                                                 *)
(***************************************************************************)
C6_PriorityChange ==
    [][last'.op = "SetTargetTerms" =>
          LET k == last'.target
          IN  \A t \in (DOMAIN rel[k]) \cap (DOMAIN rel'[k]) :
                rel[k][t] # rel'[k][t] =>
                  /\ ~HasEntry(bkt', _TermTargetKey(k, t, rel[k][t]))
                  /\ {r \in ForwardRows(bkt') : r.term = t /\ r.target = k}
                       = {[term |-> t, target |-> k, priority |-> rel'[k][t]]}
                  /\ Get(bkt', _TargetTermKey(k, t)) = FUInt16(rel'[k][t])
                  /\ ReadTermCount(bkt', t).count = ReadTermCount(bkt, t).count
      ]_vars

\* a call that changed nothing but one priority
C6_Witness ==
    /\ last.op = "SetTargetTerms"
    /\ Cardinality(last.repri) = 1
    /\ Cardinality(DOMAIN last.terms) = 1
    /\ PairedTerms(bkt, last.target) = DOMAIN last.terms
    /\ \E t \in last.repri : ReadTermCount(bkt, t).count = 2

(***************************************************************************)
(* C7.  The index refines the relation the calls describe: an unlimited    *)
(* forward IterateTerm(t) visits target k with priority p, once, exactly   *)
(* when the most recent SetTargetTerms call for k mapped t to p; a target  *)
(* paired only with other terms is not visited.                            *)
(***************************************************************************)
C7_IterateTermRefinesRelation ==
    last.op = "IterateTerm" =>
        ExactlyOnce(last.pairs,
                    {[target |-> r.target, priority |-> r.priority] :
                        r \in {x \in Pairings : x.term = last.term}})

\* two targets under the term, and a pairing under the other term
C7_Witness ==
    /\ last.op = "IterateTerm"
    /\ Len(last.pairs) = 2
    /\ \E r \in Pairings : r.term # last.term

(***************************************************************************)
(* C8.  IterateAllTerms visits exactly the pairings of the index, each     *)
(* (term, target, priority) once, and no reverse or count row; after the   *)
(* three calls of the test's scenario it visits exactly (abc,12,2),        *)
(* (lol,10,4), (lol,12,5), (rofl,10,7), (klm,12,10), and the counts are    *)
(* abc=1, lol=2, rofl=1, klm=1.                                            *)
(***************************************************************************)
S1Entries ==
    {[term |-> abc,  target |-> 12, priority |-> 2],
     [term |-> lol,  target |-> 10, priority |-> 4],
     [term |-> lol,  target |-> 12, priority |-> 5],
     [term |-> rofl, target |-> 10, priority |-> 7],
     [term |-> klm,  target |-> 12, priority |-> 10]}

S1Counts == MapOf({<<abc, 1>>, <<lol, 2>>, <<rofl, 1>>, <<klm, 1>>})

C8_IterateAllTermsVisitsPairings ==
    last.op = "IterateAllTerms" =>
        /\ ExactlyOnce(last.entries, Pairings)
        /\ script = Len(S1Script) =>
              /\ ExactlyOnce(last.entries, S1Entries)
              /\ \A t \in S1Terms : ReadTermCount(bkt, t).count = S1Counts[t]

\* IterateAllTerms called right after the scenario's three calls
C8_Witness ==
    /\ last.op = "IterateAllTerms"
    /\ script = Len(S1Script)
    /\ Len(last.entries) = 5

(***************************************************************************)
(* C9.  With the default two-byte big-endian priority, a forward           *)
(* IterateTerm(t) yields each target with the priority it was set with, in *)
(* non-decreasing priority, and among equal priorities in ascending order  *)
(* of the targets' encoded bytes.                                          *)
(***************************************************************************)
C9_IterateTermOrder ==
    last.op = "IterateTerm" =>
        /\ \A i \in 1..Len(last.pairs) :
              /\ last.pairs[i].target \in AllTargets
              /\ last.term \in DOMAIN rel[last.pairs[i].target]
              /\ last.pairs[i].priority = rel[last.pairs[i].target][last.term]
        /\ \A i, j \in 1..Len(last.pairs) :
              i < j =>
                \/ last.pairs[i].priority < last.pairs[j].priority
                \/ /\ last.pairs[i].priority = last.pairs[j].priority
                   /\ BytesLess(TargetPackFn(last.pairs[i].target),
                                TargetPackFn(last.pairs[j].target))

\* a tie, broken by the targets' bytes against their values: 10 before -11
C9_Witness ==
    /\ last.op = "IterateTerm"
    /\ Len(last.pairs) = 2
    /\ last.pairs[1].priority = last.pairs[2].priority
    /\ last.pairs[1].target > last.pairs[2].target

(***************************************************************************)
(* C10.  Resuming forward: a forward ReadTermTargets(t, {Limit: L}) with   *)
(* L >= 1, then a forward call with no limit whose cursor is the key the   *)
(* first returned, yield in concatenation exactly what one unlimited       *)
(* ReadTermTargets(t) yields: nothing skipped, nothing twice.              *)
(***************************************************************************)
C10_ResumeForward ==
    (/\ last.op = "ReadTermTargetsResume"
     /\ last.first.window.Limit >= 1
     /\ last.first.window.Direction = IterateRegular) =>
        LET all == ReadTermTargets(bkt, last.term, ZeroWindow)
        IN  /\ last.first.targets \o last.targets = all.targets
            /\ last.first.keys \o last.keys = all.keys

\* a first page of one target, a second page with the other
C10_Witness ==
    /\ last.op = "ReadTermTargetsResume"
    /\ last.first.window.Limit = 1
    /\ Len(last.first.targets) = 1
    /\ Len(last.targets) = 1
    /\ last.window.Cursor # Nil

(***************************************************************************)
(* C11.  When a prefix iteration ends because the cursor left the prefix   *)
(* range (neither the limit nor the visitor stopped it), the key returned  *)
(* is nil.  In the scenario: after its three calls,                        *)
(* ReadTermTargets("lol", {Limit: 1}) returns [10] and a non-nil key C,    *)
(* and the call with {Cursor: C} returns [12] and nil.                     *)
(***************************************************************************)
C11_NaturalEndReturnsNil ==
    /\ last.op = "IterateTerm" => last.next = Nil
    /\ (/\ last.op \in {"ReadTermTargets", "ReadTermTargetsResume"}
        /\ \/ last.window.Limit = 0
           \/ Len(last.keys) < last.window.Limit) => last.next = Nil
    /\ (/\ last.op = "ReadTermTargetsResume"
        /\ script = Len(S1Script)
        /\ last.term = lol
        /\ last.first.window.Limit = 1) =>
            /\ last.first.targets = <<10>>
            /\ last.first.next # Nil
            /\ last.targets = <<12>>
            /\ last.next = Nil

(***************************************************************************)
(* C12.  Every non-nil key the prefix iteration returns begins with the    *)
(* iteration's prefix: when the step taken after a limit stop or a         *)
(* visitor halt leaves the prefix range, nil is returned.                  *)
(* Stated here for the calls the limit or the visitor stopped, where the    *)
(* key returned is the one the extra step reached.                         *)
(***************************************************************************)
C12_ResumeKeyInPrefix ==
    (\/ /\ last.op = "ReadTermTargets"
        /\ last.window.Limit > 0
        /\ Len(last.keys) = last.window.Limit
     \/ /\ last.op = "IterateTermHalting"
        /\ Len(last.keys) = last.haltAt) =>
        \/ last.next = Nil
        \/ HasPrefix(last.next, _TermKeyPrefix(last.term))

(***************************************************************************)
(* C13.  When the cursor of the window does not begin with the prefix of   *)
(* the term read, the range is empty: the visitor is never called and      *)
(* ReadTermTargets appends nothing to targets, whatever the bucket holds.  *)
(* Stated here for windows without an offset, so that the entry visited is *)
(* the one the cursor itself led to.                                       *)
(***************************************************************************)
C13_ForeignCursorVisitsNothing ==
    (/\ last.op = "ReadTermTargets"
     /\ last.window.Cursor # Nil
     /\ last.window.Offset = 0
     /\ ~HasPrefix(last.window.Cursor, _TermKeyPrefix(last.term))) =>
        last.targets = <<>>

(***************************************************************************)
(* C14.  When a window carries both a cursor and an offset above zero, the *)
(* cursor is used and the offset is not applied: the call visits what the  *)
(* same window with offset zero visits, and when the cursor is the key of  *)
(* a row of the term, a forward call visits that row first.                *)
(***************************************************************************)
C14_CursorBeatsOffset ==
    (/\ last.op = "ReadTermTargets"
     /\ last.window.Cursor # Nil
     /\ last.window.Offset > 0) =>
        /\ last.keys =
             ReadTermTargets(bkt, last.term,
                             [last.window EXCEPT !.Offset = 0]).keys
        /\ (/\ last.window.Direction = IterateRegular
            /\ HasEntry(bkt, last.window.Cursor)
            /\ HasPrefix(last.window.Cursor, _TermKeyPrefix(last.term))) =>
                /\ Len(last.keys) >= 1
                /\ last.keys[1] = last.window.Cursor

(***************************************************************************)
(* C15.  A window with Limit L > 0 has the visitor called for at most L    *)
(* entries, and for exactly min(L, n) when the visitor never halts, n      *)
(* being the number of in-range entries that remain from the position the  *)
(* call starts at; with Limit 0 all n are visited.  ReadTermTargetSingle   *)
(* (Limit 1) reads one target exactly when the term has one.  The exact    *)
(* count is stated for windows whose cursor, if any, begins with the       *)
(* prefix.                                                                 *)
(***************************************************************************)
Min(a, b) == IF a <= b THEN a ELSE b

\* the entries with the prefix that lie at or beyond, in the window's
\* direction, the position reached by the positioning and the offset
RemainingInRange(b, prefix, w) ==
    LET start == IF Len(w.Cursor) > 0 THEN w.Cursor ELSE prefix
        pos0  == _CursorStartPosForPrefix(b, start, w.Direction)
        off   == IF w.Offset > 0
                 THEN OffsetWalk(b, pos0, w.Direction, w.Offset)
                 ELSE [ok |-> TRUE, pos |-> pos0]
    IN  IF ~off.ok THEN {}
        ELSE {i \in 1..Len(b) :
                /\ HasPrefix(b[i].key, prefix)
                /\ IF w.Direction = IterateRegular THEN i >= off.pos
                   ELSE i <= off.pos}

Drop(seq, o) == SubSeq(seq, Min(o, Len(seq)) + 1, Len(seq))

AllInPrefix(keys, prefix) == \A i \in 1..Len(keys) : HasPrefix(keys[i], prefix)

C17_NextPrefixGreater ==
    last.op = "_NextPrefix" =>
        /\ BytesLess(last.s, last.next)
        /\ last.s = <<>> => last.next = <<0>>
        /\ last.s = <<255, 255>> => last.next = <<255, 255, 0>>
        /\ last.s = <<1, 255>> => last.next = <<2, 255>>

\* the input of 0xFF bytes only, where a byte is appended
C17_Witness ==
    /\ last.op = "_NextPrefix"
    /\ last.s = <<255, 255>>
    /\ last.next = <<255, 255, 0>>

(***************************************************************************)
(* C18.  NextPrefix law: for every byte string s, _NextPrefix(s) is        *)
(* greater than every byte string that begins with s.                      *)
(***************************************************************************)
C18_NextPrefixAboveAll ==
    last.op = "_NextPrefix" => BytesLess(last.t, last.next)

\* C18, amended: the law holds for an s that has a byte below 0xFF; for the
\* empty s and an s of 0xFF bytes only the result is s with 0x00 appended,
\* which is above s alone among the strings that begin with s
C18_NextPrefixAboveAllBelowFF ==
    last.op = "_NextPrefix" =>
        IF \E i \in 1..Len(last.s) : last.s[i] # 255
        THEN /\ BytesLess(last.t, last.next)
             /\ ~HasPrefix(last.next, last.s)
        ELSE /\ last.next = last.s \o <<0>>
             /\ BytesLess(last.t, last.next) <=> last.t = last.s

\* the byte raised is followed by 0xFF, and t is longer than the result
C18_Witness ==
    /\ last.op = "_NextPrefix"
    /\ last.s = <<1, 255>>
    /\ last.t = <<1, 255, 255>>
    /\ last.next = <<2, 255>>

(***************************************************************************)
(* C19.  DeleteTargetTerms(target), that is SetTargetTerms with an empty   *)
(* or nil map, removes every pairing of target: afterwards                 *)
(* IterateTarget(target) yields nothing, no forward row mentions target,   *)
(* and the count of each term that was paired with target is one less      *)
(* than before (the other counts are as before).  Stated of the call made  *)
(* in any state a write has left, for every target and every order in      *)
(* which the call can remove the terms.                                    *)
(***************************************************************************)
C19_DeleteRemovesAll ==
    last.op = "SetTargetTerms" =>
        \A k \in Targets :
            \A after \in SetTargetTermsOutcomes(bkt, k, EmptyMap) :
                /\ IterateTarget(after, k, 0) = <<>>
                /\ {r \in ForwardRows(after) : r.target = k} = {}
                /\ RowsOfTarget(after, k) = {}
                /\ \A t \in AllTerms :
                      ReadTermCount(after, t).count =
                        ReadTermCount(bkt, t).count
                          - (IF t \in DOMAIN rel[k] THEN 1 ELSE 0)

\* a target with two terms, one of them shared with the other target: the
\* call takes its count from 2 to 1 and the other's from 1 to 0
C19_Witness ==
    /\ last.op = "SetTargetTerms"
    /\ \E k \in Targets :
          /\ DOMAIN rel[k] = Terms
          /\ \E after \in SetTargetTermsOutcomes(bkt, k, EmptyMap) :
                /\ after # bkt
                /\ \E t \in Terms :
                      /\ ReadTermCount(bkt, t).count = 2
                      /\ ReadTermCount(after, t).count = 1
                /\ \E t \in Terms :
                      /\ ReadTermCount(bkt, t).count = 1
                      /\ ReadTermCount(after, t) = [present |-> TRUE, count |-> 0]

(***************************************************************************)
(* C20.  ReadTermCount reads a missing count row and a count row of zero   *)
(* alike as count 0: for a term that was never paired it reports           *)
(* present = false, and for a term whose last pairing was removed the      *)
(* count row is still there and it reports count 0.  A count row appears   *)
(* only when its term is paired and is never removed afterwards.           *)
(***************************************************************************)
NeverPairedReadsAbsent ==
    \A t \in AllTerms : ReadTermCount(bkt, t) = [present |-> FALSE, count |-> 0]

CountRowStep ==
    \A t \in AllTerms :
        LET before == ReadTermCount(bkt, t)
            after  == ReadTermCount(bkt', t)
        IN  /\ before.present => after.present
            /\ (~before.present /\ after.present) =>
                  /\ last'.op = "SetTargetTerms"
                  /\ t \in DOMAIN last'.terms
            /\ ~after.present => after.count = 0
            /\ (\A k \in AllTargets : t \notin DOMAIN rel'[k]) => after.count = 0

ReadTermCountAnswer ==
    last.op = "ReadTermCount" =>
        /\ last.present = HasEntry(bkt, _TermCountKey(last.term))
        /\ last.count = Cardinality({k \in AllTargets : last.term \in DOMAIN rel[k]})
        /\ ~last.present => last.count = 0

C20_MissingAndZeroAlike ==
    /\ NeverPairedReadsAbsent
    /\ [][CountRowStep]_vars
    /\ []ReadTermCountAnswer

\* one term's last pairing was removed and its count is read; the other
\* term was never paired
C20_Witness ==
    /\ last.op = "ReadTermCount"
    /\ last.present
    /\ last.count = 0
    /\ \E t \in Terms : ~ReadTermCount(bkt, t).present

(***************************************************************************)
(* Transactions                                                            *)
(*                                                                         *)
(* bkt is what is committed.  A writable transaction works on a copy of    *)
(* it, which replaces bkt when the transaction commits and is dropped when *)
(* it is rolled back; a read-only transaction reads the bucket as it was   *)
(* committed when the transaction began.  Inside a writable transaction    *)
(* SetTargetTerms is followed one engine call at a time.                   *)
(***************************************************************************)

\* The longest key the engine accepts.  bolt.MaxKeySize is 32768; the model
\* scales it down so that a term of a few bytes makes a forward key too long.
MaxKeySize == 9

BoltPut_noWritableCheck(b, key, value, writable) ==
    IF Len(key) = 0 THEN [b |-> b, err |-> "ErrKeyRequired"]
    ELSE IF Len(key) > MaxKeySize THEN [b |-> b, err |-> "ErrKeyTooLarge"]
    ELSE [b |-> Put(b, key, value), err |-> "nil"]

\* bolt's Bucket.Put on a bucket of a transaction: the bucket it leaves and
\* the error it returns
BoltPut(b, key, value, writable) ==
    IF ~writable THEN [b |-> b, err |-> "ErrTxNotWritable"]
    ELSE IF Len(key) = 0 THEN [b |-> b, err |-> "ErrKeyRequired"]
    ELSE IF Len(key) > MaxKeySize THEN [b |-> b, err |-> "ErrKeyTooLarge"]
    ELSE [b |-> Put(b, key, value), err |-> "nil"]

\* bolt's Bucket.Delete
BoltDelete(b, key, writable) ==
    IF ~writable THEN [b |-> b, err |-> "ErrTxNotWritable"]
    ELSE [b |-> Delete(b, key), err |-> "nil"]

\* One engine call of a reconciliation: bkt.Delete(key), bkt.Put(key, value),
\* or _IncTermCount(bkt, term, inc)
EngineCall(kind, key, value, term, inc) ==
    [kind |-> kind, key |-> key, value |-> value, term |-> term, inc |-> inc]

\* _DelTargetTermPair: two deletes, their errors dropped
_DelTargetTermPairCalls(target, term, priority) ==
    << EngineCall("Delete", _TermTargetKey(target, term, priority), Nil, term, 0),
       EngineCall("Delete", _TargetTermKey(target, term), Nil, term, 0) >>

\* _AddTargetTermPair: two puts, their errors dropped
_AddTargetTermPairCalls(target, term, priority) ==
    << EngineCall("Put", _TermTargetKey(target, term, priority), Nil, term, 0),
       EngineCall("Put", _TargetTermKey(target, term),
                  PriorityPackFn(priority), term, 0) >>

_IncTermCountCall(term, increment) ==
    EngineCall("Inc", _TermCountKey(term), Nil, term, increment)

RECURSIVE DelCalls(_, _, _)
DelCalls(target, del, order) ==
    IF order = <<>> THEN <<>>
    ELSE LET term == Head(order)
         IN  _DelTargetTermPairCalls(target, term, del[term])
                 \o << _IncTermCountCall(term, -1) >>
                 \o DelCalls(target, del, Tail(order))

RECURSIVE AddCalls(_, _, _)
AddCalls(target, add, order) ==
    IF order = <<>> THEN <<>>
    ELSE LET term == Head(order)
         IN  _AddTargetTermPairCalls(target, term, add[term])
                 \o << _IncTermCountCall(term, 1) >>
                 \o AddCalls(target, add, Tail(order))

\* The sequences of engine calls SetTargetTerms may make on bucket b: the
\* del loop, then the add loop, each in an order a Go map range may take
SetTargetTermsCalls(b, target, terms) ==
    LET existing == ExistingTerms(b, target)
        del      == DelSet(existing, terms)
        add      == AddSet(existing, terms)
    IN  {DelCalls(target, del, delOrder) \o AddCalls(target, add, addOrder) :
            delOrder \in MapOrders(DOMAIN del), addOrder \in MapOrders(DOMAIN add)}

\* What one engine call does to bucket b: the bucket it leaves, and the error
\* it panics with ("nil" when it returns).  Put and Delete errors are dropped
\* by the callers; the count row is written through RawMustPut, which panics.
EngineStep(b, call, writable) ==
    IF call.kind = "Delete"
    THEN [b |-> BoltDelete(b, call.key, writable).b, panic |-> "nil"]
    ELSE IF call.kind = "Put"
    THEN [b |-> BoltPut(b, call.key, call.value, writable).b, panic |-> "nil"]
    ELSE LET count == CountOf(Get(b, call.key)) + call.inc
             r     == BoltPut(b, call.key, PackCountFn(count), writable)
         IN  [b |-> r.b, panic |-> r.err]

\* A whole sequence of engine calls, stopping at the first panic
RECURSIVE EngineRun(_, _, _)
EngineRun(b, calls, writable) ==
    IF calls = <<>> THEN [b |-> b, panic |-> "nil"]
    ELSE LET r == EngineStep(b, Head(calls), writable)
         IN  IF r.panic # "nil" THEN r
             ELSE EngineRun(r.b, Tail(calls), writable)

\* WriteTx(db): db.Begin(true), a working copy of what is committed
WriteTx(committed, committedRel) ==
    [state |-> "open", b |-> committed, rel |-> committedRel,
     todo |-> <<>>, calls |-> 0]

ViewTx_dirty(committed, w) ==
    [state |-> "open", b |-> IF w.state = "open" THEN w.b ELSE committed]

\* ViewTx(db): db.Begin(false), a snapshot of what is committed; the open
\* writable transaction w has no part in it
ViewTx(committed, w) == [state |-> "open", b |-> committed]

TxClose_commit(committed, w) == w.b

\* TxClose(tx): tx.Rollback(), which leaves what is committed as it was
TxClose(committed, w) == committed

\* Commit(tx): tx.Commit(), which makes the working copy what is committed
Commit(committed, w) == w.b

\* how many SetTargetTerms calls one callback makes, at most
MaxTxCalls == 1

\* the maps the callbacks pass
TxMaps ==
    {EmptyMap,
     MapOf({<< <<97>>, 1 >>}),
     MapOf({<< <<97>>, 256 >>, << <<97, 98>>, 1 >>})}

\* WithWriteTx(db, fn): tx := WriteTx(db).  A reader is followed across one
\* commit: no new writer begins while a reader holds an older snapshot.
TxBegin ==
    /\ wtx.state = "closed"
    /\ IF rtx.state = "open" THEN rtx.b = bkt ELSE TRUE
    /\ wtx' = WriteTx(bkt, rel)
    /\ last' = [op |-> "WriteTx"]
    /\ UNCHANGED <<bkt, rel, script, rtx, kv, db, proc>>

\* fn calls SetTargetTerms(tx, index, target, terms): the reads it starts
\* with, which fix the engine calls it goes on to make
TxSetTargetTerms(target, terms) ==
    /\ wtx.state = "open"
    /\ wtx.todo = <<>>
    /\ wtx.calls < MaxTxCalls
    /\ \E calls \in SetTargetTermsCalls(wtx.b, target, terms) :
          wtx' = [wtx EXCEPT !.todo = calls,
                             !.calls = @ + 1,
                             !.rel = [@ EXCEPT ![target] = terms]]
    /\ last' = [op |-> "TxSetTargetTerms", target |-> target, terms |-> terms,
                start |-> wtx.b]
    /\ UNCHANGED <<bkt, rel, script, rtx, kv, db, proc>>

\* the next engine call of the running SetTargetTerms; a panic unwinds
\* through WithWriteTx, whose deferred TxClose rolls the transaction back
TxStep ==
    /\ wtx.state = "open"
    /\ wtx.todo # <<>>
    /\ LET r == EngineStep(wtx.b, Head(wtx.todo), TRUE)
       IN  IF r.panic # "nil"
           THEN /\ wtx' = NoTx
                /\ bkt' = TxClose(bkt, wtx)
                /\ last' = [op |-> "panic", err |-> r.panic]
           ELSE /\ wtx' = [wtx EXCEPT !.b = r.b, !.todo = Tail(@)]
                /\ bkt' = bkt
                /\ last' = [op |-> "EngineStep", call |-> Head(wtx.todo)]
    /\ UNCHANGED <<rel, script, rtx, kv, db, proc>>

\* fn calls Commit(tx) and returns; the deferred TxClose finds the
\* transaction closed
TxCommit ==
    /\ wtx.state = "open"
    /\ wtx.todo = <<>>
    /\ bkt' = Commit(bkt, wtx)
    /\ rel' = wtx.rel
    /\ wtx' = NoTx
    /\ last' = [op |-> "Commit", before |-> bkt, working |-> wtx.b]
    /\ UNCHANGED <<script, rtx, kv, db, proc>>

\* fn returns without Commit: the deferred TxClose(tx)
TxReturn ==
    /\ wtx.state = "open"
    /\ wtx.todo = <<>>
    /\ bkt' = TxClose(bkt, wtx)
    /\ wtx' = NoTx
    /\ last' = [op |-> "TxClose", before |-> bkt, working |-> wtx.b]
    /\ UNCHANGED <<rel, script, rtx, kv, db, proc>>

\* WithViewTx(db, fn): tx := ViewTx(db)
ViewBegin ==
    /\ rtx.state = "closed"
    /\ rtx' = ViewTx(bkt, wtx)
    /\ last' = [op |-> "ViewTx"]
    /\ UNCHANGED <<bkt, rel, script, wtx, kv, db, proc>>

\* WithViewTx: the deferred TxClose(tx)
ViewEnd ==
    /\ rtx.state = "open"
    /\ rtx' = NoTx
    /\ last' = [op |-> "ViewClose"]
    /\ UNCHANGED <<bkt, rel, script, wtx, kv, db, proc>>

\* fn of a WithViewTx calls SetTargetTerms(tx, index, target, terms): the
\* whole call on the read-only transaction, up to its return or its panic
ViewSetTargetTerms(target, terms) ==
    /\ rtx.state = "open"
    /\ \E calls \in SetTargetTermsCalls(rtx.b, target, terms) :
          LET r == EngineRun(rtx.b, calls, FALSE)
          IN  /\ rtx' = [rtx EXCEPT !.b = r.b]
              /\ last' = [op     |-> "ViewSetTargetTerms",
                          target |-> target,
                          terms  |-> terms,
                          before |-> rtx.b,
                          ncalls |-> Len(calls),
                          panic  |-> r.panic]
    /\ UNCHANGED <<bkt, rel, script, wtx, kv, db, proc>>

NextTx ==
    \/ TxBegin
    \/ \E target \in Targets, terms \in TxMaps : TxSetTargetTerms(target, terms)
    \/ TxStep
    \/ TxCommit
    \/ TxReturn
    \/ ViewBegin
    \/ \E target \in Targets, terms \in TxMaps : ViewSetTargetTerms(target, terms)
    \/ ViewEnd

SpecTx == Init /\ [][NextTx]_vars

\* the reverse rows of b, decoded
ReverseRows(b) ==
    {[term     |-> _ReadTargetTerm(b[i].key).term,
      target   |-> _ReadTargetTerm(b[i].key).target,
      priority |-> PriorityUnpackFn(b[i].value, 1).val] :
        i \in RowsWith(b, IndexTargetPrefix)}

\* the terms b has a row of any kind for
TermsIn(b) ==
    {r.term : r \in ForwardRows(b) \cup ReverseRows(b)}
    \cup {ReadStringZ(b[i].key, 2).val : i \in RowsWith(b, IndexCountPrefix)}

\* forward rows, reverse rows and count rows of b agree
IndexConsistent(b) ==
    /\ ForwardRows(b) = ReverseRows(b)
    /\ Cardinality(RowsWith(b, IndexTermPrefix)) = Cardinality(ForwardRows(b))
    /\ \A t \in TermsIn(b) :
          ReadTermCount(b, t).count =
              Cardinality({r \in ForwardRows(b) : r.term = t})

(***************************************************************************)
(* C21.  A reader never sees a half-reconciled index: a read-only          *)
(* transaction open while a writable transaction runs SetTargetTerms reads *)
(* what was committed when it began, and keeps reading that whatever the   *)
(* writer does and whether or not it commits; what it reads has forward,   *)
(* reverse and count rows in agreement.                                    *)
(***************************************************************************)
C21_ReaderSeesCommitted ==
    /\ [](rtx.state = "open" => IndexConsistent(rtx.b))
    /\ [][/\ (rtx.state = "closed" /\ rtx'.state = "open") => rtx'.b = bkt
          /\ (rtx.state = "open" /\ rtx'.state = "open") => rtx'.b = rtx.b]_vars

\* a reader open while the writer's working copy is half reconciled
C21_Witness ==
    /\ rtx.state = "open"
    /\ wtx.state = "open"
    /\ wtx.todo # <<>>
    /\ ~IndexConsistent(wtx.b)
    /\ ForwardRows(rtx.b) # {}

\* A term whose forward key is one too many bytes for the engine while its
\* reverse key and its count key are not, and a term whose every key is.
longTerm == <<97, 97, 97, 97, 97, 97>>
hugeTerm == <<97, 97, 97, 97, 97, 97, 97, 97>>

TxErrMaps ==
    {EmptyMap,
     MapOf({<< <<97>>, 1 >>}),
     MapOf({<< longTerm, 1 >>}),
     MapOf({<< hugeTerm, 1 >>})}

NextTxErr ==
    \/ TxBegin
    \/ \E target \in Targets, terms \in TxErrMaps : TxSetTargetTerms(target, terms)
    \/ TxStep
    \/ TxCommit
    \/ TxReturn
    \/ ViewBegin
    \/ \E target \in Targets, terms \in TxErrMaps : ViewSetTargetTerms(target, terms)
    \/ ViewEnd

SpecTxErr == Init /\ [][NextTxErr]_vars

(***************************************************************************)
(* C22.  An engine write that fails during SetTargetTerms aborts the call  *)
(* as a fatal error: the call never returns normally having updated a      *)
(* term's count row while the forward or reverse row that goes with it was *)
(* not written.  Stated on the transaction's working copy when the         *)
(* callback's SetTargetTerms call has returned.                            *)
(***************************************************************************)
C22_WriteFailureIsFatal ==
    (wtx.state = "open" /\ wtx.todo = <<>> /\ wtx.calls > 0) =>
        IndexConsistent(wtx.b)

(***************************************************************************)
(* C23 as stated.  SetTargetTerms called with a read-only transaction      *)
(* surfaces the engine's not-writable error, for every target and every    *)
(* desired map, and leaves the index as it was.                            *)
(***************************************************************************)
C23_ReadOnlyAlwaysFails ==
    last.op = "ViewSetTargetTerms" =>
        /\ last.panic = "ErrTxNotWritable"
        /\ rtx.b = last.before

(***************************************************************************)
(* C23, amended.  SetTargetTerms called with a read-only transaction       *)
(* leaves the index as it was, and surfaces the engine's not-writable      *)
(* error exactly when the desired map differs from the target's existing   *)
(* pairings; when there is nothing to delete or add it makes no engine     *)
(* write and returns normally.                                             *)
(***************************************************************************)
C23_ReadOnlyFailsOnChange ==
    last.op = "ViewSetTargetTerms" =>
        LET existing == ExistingTerms(last.before, last.target)
            changes  == DOMAIN DelSet(existing, last.terms)
                            \cup DOMAIN AddSet(existing, last.terms)
        IN  /\ rtx.b = last.before
            /\ last.panic = IF changes # {} THEN "ErrTxNotWritable" ELSE "nil"

\* a read-only call that had a pairing to delete and one to add
C23_Witness ==
    /\ last.op = "ViewSetTargetTerms"
    /\ last.panic = "ErrTxNotWritable"
    /\ ExistingTerms(last.before, last.target) # EmptyMap
    /\ last.terms # EmptyMap
    /\ rtx.b = last.before

(***************************************************************************)
(* C24.  Writes made inside WithWriteTx are discarded unless the callback  *)
(* commits: when the callback returns without Commit, what is committed is *)
(* what it was before the transaction, whatever the callback wrote; when   *)
(* it called Commit, what is committed is the transaction's working copy.  *)
(* A transaction begun afterwards starts from what is committed.           *)
(***************************************************************************)
C24_UncommittedDiscarded ==
    /\ last.op = "TxClose" => bkt = last.before
    /\ last.op = "Commit"  => bkt = last.working
    /\ last.op = "WriteTx" => wtx.b = bkt
    /\ last.op = "ViewTx"  => rtx.b = bkt

\* a callback that changed the index and returned without committing
C24_Witness ==
    /\ last.op = "TxClose"
    /\ last.working # last.before
    /\ ForwardRows(last.before) # {}
    /\ bkt = last.before

(***************************************************************************)
(* The typed bucket: Bucket(&info, name, vpack.FUInt16, vpack.Int), ids    *)
(* under a fixed-width big-endian key codec and items under the varint     *)
(* codec.  bkt is the bucket's raw sub-bucket.                             *)
(***************************************************************************)

KeyPackFn(id) == FUInt16(id)

KeyUnpackFn(data) == ReadFUInt16(data, 1).val

ValuePackFn(item) == VInt(item)

ValueUnpackFn(data) == ReadVInt(data, 1).val

\* var zero K, and var item T
ZeroId == 0

ZeroItem == 0

HasKey_seekOnly(b, id) == CursorKey(b, CursorSeek(b, KeyPackFn(id))) # Nil

\* HasKey: RawHasKey on the encoded id
HasKey(b, id) == HasEntry(b, KeyPackFn(id))

\* _Read: whether an item was read, and the item
_Read(b, id) ==
    IF id = ZeroId THEN [ok |-> FALSE, item |-> ZeroItem]
    ELSE LET data == Get(b, KeyPackFn(id))
         IN  IF data = Nil THEN [ok |-> FALSE, item |-> ZeroItem]
             ELSE [ok |-> TRUE, item |-> ValueUnpackFn(data)]

Read(b, id) == _Read(b, id)

Write_noZeroCheck(b, id, item) == Put(b, KeyPackFn(id), ValuePackFn(item))

\* Write: nothing for the zero id, RawMustPut otherwise
Write(b, id, item) ==
    IF id = ZeroId THEN b
    ELSE Put(b, KeyPackFn(id), ValuePackFn(item))

\* Delete(tx, info, id)
DeleteId(b, id) == Delete(b, KeyPackFn(id))

RECURSIVE ReadSlice_keepAbsent(_, _, _)
ReadSlice_keepAbsent(b, ids, list) ==
    IF ids = <<>> THEN [list |-> list, count |-> 0]
    ELSE LET r    == _Read(b, Head(ids))
             rest == ReadSlice_keepAbsent(b, Tail(ids), Append(list, r.item))
         IN  [list |-> rest.list, count |-> rest.count + (IF r.ok THEN 1 ELSE 0)]

\* ReadSlice(tx, info, ids, &list): the list it leaves and the count returned
RECURSIVE ReadSlice(_, _, _)
ReadSlice(b, ids, list) ==
    IF ids = <<>> THEN [list |-> list, count |-> 0]
    ELSE LET r == _Read(b, Head(ids))
         IN  IF r.ok
             THEN LET rest == ReadSlice(b, Tail(ids), Append(list, r.item))
                  IN  [list |-> rest.list, count |-> rest.count + 1]
             ELSE ReadSlice(b, Tail(ids), list)

\* itemsMap[id] = item
MapSet(m, id, item) ==
    [i \in DOMAIN m \cup {id} |-> IF i = id THEN item ELSE m[i]]

\* delete(itemsMap, id), for the ghost
MapUnset(m, id) == [i \in DOMAIN m \ {id} |-> m[i]]

\* ReadSliceToMap(tx, info, ids, itemsMap): the map it leaves and the count
RECURSIVE ReadSliceToMap(_, _, _)
ReadSliceToMap(b, ids, itemsMap) ==
    IF ids = <<>> THEN [map |-> itemsMap, count |-> 0]
    ELSE LET r == _Read(b, Head(ids))
         IN  IF r.ok
             THEN LET rest == ReadSliceToMap(b, Tail(ids),
                                             MapSet(itemsMap, Head(ids), r.item))
                  IN  [map |-> rest.map, count |-> rest.count + 1]
             ELSE ReadSliceToMap(b, Tail(ids), itemsMap)

\* the items of raw entries, decoded
ItemsOf(entries) == [i \in 1..Len(entries) |-> ValueUnpackFn(entries[i].value)]

ScanList_noLimit(b, startKey, count) ==
    LET w == Window(0, 0, KeyPackFn(startKey), IterateRegular)
        r == _RawIterateCore(b, Nil, w, 0)
    IN  [items   |-> ItemsOf(r.visited),
         done    |-> r.next = Nil,
         nextKey |-> IF r.next = Nil THEN ZeroId ELSE KeyUnpackFn(r.next)]

ScanList_doneWhenShort(b, startKey, count) ==
    LET w == Window(count, 0, KeyPackFn(startKey), IterateRegular)
        r == _RawIterateCore(b, Nil, w, 0)
    IN  [items   |-> ItemsOf(r.visited),
         done    |-> Len(r.visited) < count,
         nextKey |-> IF r.next = Nil THEN ZeroId ELSE KeyUnpackFn(r.next)]

\* ScanList(tx, info, startKey, count, &items): the items appended, done, and
\* the key to go on from
ScanList(b, startKey, count) ==
    LET w == Window(count, 0, KeyPackFn(startKey), IterateRegular)
        r == _RawIterateCore(b, Nil, w, 0)
    IN  [items   |-> ItemsOf(r.visited),
         done    |-> r.next = Nil,
         nextKey |-> IF r.next = Nil THEN ZeroId ELSE KeyUnpackFn(r.next)]

\* The loop of IterateInBatches under a visitor that always continues: the
\* batches handed to it.  The Go loop has no bound; the model follows it for
\* todo more rounds and reports whether it had ended by then.
RECURSIVE BatchLoop(_, _, _, _)
BatchLoop(b, key, batchSize, todo) ==
    LET r == ScanList(b, key, batchSize)
    IN  IF r.done THEN [batches |-> <<r.items>>, ended |-> TRUE]
        ELSE IF todo = 0 THEN [batches |-> <<r.items>>, ended |-> FALSE]
        ELSE LET rest == BatchLoop(b, r.nextKey, batchSize, todo - 1)
             IN  [batches |-> <<r.items>> \o rest.batches, ended |-> rest.ended]

\* IterateInBatches(tx, info, batchSize, visitFn)
IterateInBatches(b, batchSize) == BatchLoop(b, ZeroId, batchSize, Len(b) + 1)

\* IterateAll / IterateAllReverse: the (key, item) pairs handed to the visitor
_IterateAllCore(b, direction) ==
    LET r == _RawIterateCore(b, Nil, Window(0, 0, Nil, direction), 0)
    IN  [i \in 1..Len(r.visited) |->
            [key  |-> KeyUnpackFn(r.visited[i].key),
             item |-> ValueUnpackFn(r.visited[i].value)]]

IterateAll(b) == _IterateAllCore(b, IterateRegular)

IterateAllReverse(b) == _IterateAllCore(b, IterateReverse)

\* The ids and items of the calls.  256 differs from the zero id in the high
\* byte of its key only, and 1 in the low byte only.
Ids == {ZeroId, 1, 2, 256}

Items == {5, 6}

MaxIds == 3

MaxBatch == 3

IdLists == UNION {[1..n -> Ids] : n \in 0..MaxIds}

CallWrite(id, item) ==
    /\ bkt' = Write(bkt, id, item)
    /\ kv' = IF id = ZeroId THEN kv ELSE MapSet(kv, id, item)
    /\ last' = [op |-> "Write", id |-> id, item |-> item, before |-> bkt]
    /\ UNCHANGED <<rel, script, wtx, rtx, db, proc>>

CallDelete(id) ==
    /\ bkt' = DeleteId(bkt, id)
    /\ kv' = MapUnset(kv, id)
    /\ last' = [op |-> "Delete", id |-> id]
    /\ UNCHANGED <<rel, script, wtx, rtx, db, proc>>

CallRead(id) ==
    /\ last' = [op |-> "Read", id |-> id, read |-> Read(bkt, id),
                has |-> HasKey(bkt, id)]
    /\ UNCHANGED <<bkt, rel, script, wtx, rtx, kv, db, proc>>

CallReadSlice(ids, list) ==
    /\ last' = [op |-> "ReadSlice", ids |-> ids, list |-> list,
                out |-> ReadSlice(bkt, ids, list)]
    /\ UNCHANGED <<bkt, rel, script, wtx, rtx, kv, db, proc>>

CallReadSliceToMap(ids, itemsMap) ==
    /\ last' = [op |-> "ReadSliceToMap", ids |-> ids, itemsMap |-> itemsMap,
                out |-> ReadSliceToMap(bkt, ids, itemsMap)]
    /\ UNCHANGED <<bkt, rel, script, wtx, rtx, kv, db, proc>>

CallIterateInBatches(batchSize) ==
    /\ last' = [op |-> "IterateInBatches", batchSize |-> batchSize,
                out |-> IterateInBatches(bkt, batchSize)]
    /\ UNCHANGED <<bkt, rel, script, wtx, rtx, kv, db, proc>>

\* reads are taken after a write or a delete, or of the bucket never written
AfterBucketWrite == last.op \in {"none", "Write", "Delete"}

NextBucket ==
    \/ \E id \in Ids, item \in Items : AfterBucketWrite /\ CallWrite(id, item)
    \/ \E id \in Ids : AfterBucketWrite /\ CallDelete(id)
    \/ \E id \in Ids : AfterBucketWrite /\ CallRead(id)
    \/ \E ids \in IdLists, list \in {<<>>, <<ZeroItem>>} :
          AfterBucketWrite /\ CallReadSlice(ids, list)
    \/ \E ids \in IdLists, m \in {NoItems, MapSet(NoItems, 2, ZeroItem)} :
          AfterBucketWrite /\ CallReadSliceToMap(ids, m)
    \/ \E n \in 1..MaxBatch : AfterBucketWrite /\ CallIterateInBatches(n)

SpecBucket == Init /\ [][NextBucket]_vars

(***************************************************************************)
(* C25.  Write with the zero id leaves the bucket as it was: no entry is   *)
(* made under the zero key and the items already there stay as they are.   *)
(***************************************************************************)
C25_WriteZeroIdIsNoOp ==
    (last.op = "Write" /\ last.id = ZeroId) =>
        /\ bkt = last.before
        /\ ~HasEntry(bkt, KeyPackFn(ZeroId))

\* a zero-id Write on a bucket that holds items
C25_Witness ==
    /\ last.op = "Write"
    /\ last.id = ZeroId
    /\ Len(last.before) >= 2
    /\ bkt = last.before

(***************************************************************************)
(* C26.  Over non-zero ids a bucket behaves as a map: Read(id) finds an    *)
(* item, and it is v, exactly when the most recent operation on id was     *)
(* Write(id, v); it finds nothing when id was never written or was deleted *)
(* since.  HasKey(id) is true exactly when Read(id) finds an item.         *)
(***************************************************************************)
C26_BucketIsMap ==
    /\ \A id \in Ids \ {ZeroId} :
          /\ Read(bkt, id).ok = (id \in DOMAIN kv)
          /\ id \in DOMAIN kv => Read(bkt, id).item = kv[id]
          /\ HasKey(bkt, id) = Read(bkt, id).ok
    /\ (last.op = "Read" /\ last.id # ZeroId) =>
          /\ last.read = Read(bkt, last.id)
          /\ last.has = last.read.ok

\* a Read that found the item written under an id, in a bucket where an id
\* between two present ids is absent
C26_Witness ==
    /\ last.op = "Read"
    /\ last.id = 256
    /\ last.read = [ok |-> TRUE, item |-> 6]
    /\ last.has
    /\ DOMAIN kv = {1, 256}

\* the ids of a list that are present in bucket b, in the order of the list
PresentIds(b, ids) == SelectSeq(ids, LAMBDA id : HasKey(b, id))

(***************************************************************************)
(* C27.  ReadSlice(ids, list) appends to list the items of exactly the ids *)
(* that are present in the bucket, in the order of ids, skipping the       *)
(* absent ones, and returns how many it appended.  ReadSliceToMap sets     *)
(* map[id] to the item of each present id of ids, leaves the other entries *)
(* of the map alone, and returns the number of items it loaded: the number *)
(* of present ids in ids, an id listed twice counted twice.                *)
(***************************************************************************)
C27_ReadSliceLoadsPresent ==
    /\ last.op = "ReadSlice" =>
          LET present == PresentIds(bkt, last.ids)
          IN  /\ last.out.list =
                    last.list \o [j \in 1..Len(present) |-> kv[present[j]]]
              /\ last.out.count = Len(last.out.list) - Len(last.list)
    /\ last.op = "ReadSliceToMap" =>
          LET present == PresentIds(bkt, last.ids)
              loaded  == {present[j] : j \in 1..Len(present)}
          IN  /\ DOMAIN last.out.map = DOMAIN last.itemsMap \cup loaded
              /\ \A id \in DOMAIN last.out.map :
                    last.out.map[id] = IF id \in loaded THEN kv[id]
                                       ELSE last.itemsMap[id]
              /\ last.out.count = Len(present)

\* a ReadSlice over a present id, an absent id and another present id, in an
\* order that is not the key order, appending to a list that had an item
C27_Witness ==
    /\ last.op = "ReadSlice"
    /\ last.ids = <<256, 2, 1>>
    /\ DOMAIN kv = {1, 256}
    /\ kv[1] # kv[256]
    /\ Len(last.list) = 1
    /\ last.out.count = 2

\* the items of bucket b in ascending key order
ItemsAscending(b) == ItemsOf(b)

RECURSIVE Flatten(_)
Flatten(seqs) == IF seqs = <<>> THEN <<>> ELSE Head(seqs) \o Flatten(Tail(seqs))

(***************************************************************************)
(* C28.  For every bucket content and every batchSize >= 1,                *)
(* IterateInBatches under a visitor that never halts ends, and the batches *)
(* it hands over hold, one after another, every item of the bucket once in *)
(* ascending key order; every batch but the last holds exactly batchSize   *)
(* items and the last holds at most batchSize.                             *)
(***************************************************************************)
C28_BatchesCoverBucket ==
    last.op = "IterateInBatches" =>
        LET batches == last.out.batches
            n       == Len(batches)
        IN  /\ last.out.ended
            /\ n >= 1
            /\ Flatten(batches) = ItemsAscending(bkt)
            /\ Len(Flatten(batches)) = Cardinality(DOMAIN kv)
            /\ \A i \in 1..(n - 1) : Len(batches[i]) = last.batchSize
            /\ Len(batches[n]) <= last.batchSize

\* three items delivered as a full batch of two and a last batch of one
C28_Witness ==
    /\ last.op = "IterateInBatches"
    /\ last.batchSize = 2
    /\ Len(bkt) = 3
    /\ Len(last.out.batches) = 2
    /\ Len(last.out.batches[1]) = 2
    /\ Len(last.out.batches[2]) = 1
    /\ last.out.ended

(***************************************************************************)
(* The iteration engine on raw buckets, for every prefix and direction.    *)
(* The keys are forward rows of an index with fixed-width targets (term    *)
(* "a", priority 1, targets 254, 255 and 256 as two big-endian bytes) and  *)
(* short keys around the byte 0xFF.                                        *)
(***************************************************************************)

\* _TermTargetKey of an index declared with a fixed-width target codec, as
\* Index(&info, name, vpack.StringZ, vpack.FInt) is; two bytes stand for the
\* codec's eight
_TermTargetKeyFixed(target, term, priority) ==
    _TermKeyPrefix(term) \o PriorityPackFn(priority) \o FUInt16(target)

\* targets whose last byte is, or is next to, 0xFF
FixedTargets == {254, 255, 256}

FixedRows == {_TermTargetKeyFixed(k, <<97>>, 1) : k \in FixedTargets}

RawKeys ==
    FixedRows
    \cup {<<1>>, <<1, 255>>, <<1, 255, 0>>, <<2>>, <<2, 0>>, <<255>>, <<255, 1>>}

RawPrefixes == {Nil, <<1>>, <<1, 255>>, <<2>>, <<255>>, <<1, 97, 0>>}

\* how many keys a raw bucket holds, at most
MaxRawKeys == 3

\* the bucket holding the keys of S, each with an empty value
RECURSIVE BucketOf(_)
BucketOf(S) ==
    IF S = {} THEN <<>>
    ELSE LET k == CHOOSE x \in S : TRUE
         IN  Put(BucketOf(S \ {k}), k, Nil)

InitRaw ==
    /\ \E S \in SUBSET RawKeys :
          /\ Cardinality(S) <= MaxRawKeys
          /\ bkt = BucketOf(S)
    /\ \E prefix \in RawPrefixes : last = [op |-> "raw", prefix |-> prefix]
    /\ rel = [k \in AllTargets |-> EmptyMap]
    /\ script = 0
    /\ wtx = NoTx
    /\ rtx = NoTx
    /\ kv = NoItems
    /\ db = NoBuckets
    /\ proc = NoCalls

\* _RawIterateCore(bkt, {Prefix, Limit, Direction}, visitFn) under a visitor
\* that never halts
CallRawIterate(limit, direction) ==
    /\ last.op = "raw"
    /\ LET r == _RawIterateCore(bkt, last.prefix,
                                Window(limit, 0, Nil, direction), 0)
       IN  last' = [op        |-> "RawIterate",
                    prefix    |-> last.prefix,
                    limit     |-> limit,
                    direction |-> direction,
                    keys      |-> [i \in 1..Len(r.visited) |-> r.visited[i].key],
                    next      |-> r.next]
    /\ UNCHANGED <<bkt, rel, script, wtx, rtx, kv, db, proc>>

\* the caller passes the returned key back as the cursor of the next call
CallRawResume ==
    /\ last.op = "RawIterate"
    /\ last.next # Nil
    /\ LET r == _RawIterateCore(bkt, last.prefix,
                                Window(0, 0, last.next, last.direction), 0)
       IN  last' = [op    |-> "RawResume",
                    first |-> last,
                    keys  |-> [i \in 1..Len(r.visited) |-> r.visited[i].key],
                    next  |-> r.next]
    /\ UNCHANGED <<bkt, rel, script, wtx, rtx, kv, db, proc>>

NextRaw ==
    \/ \E limit \in 0..MaxLimit, direction \in Directions :
          CallRawIterate(limit, direction)
    \/ CallRawResume

SpecRaw == InitRaw /\ [][NextRaw]_vars

\* the keys of b that begin with the prefix, in ascending order
KeysWithPrefix(b, prefix) ==
    LET idx == SelectSeq([i \in 1..Len(b) |-> b[i].key],
                         LAMBDA k : HasPrefix(k, prefix))
    IN  idx

Reverse(seq) == [i \in 1..Len(seq) |-> seq[Len(seq) + 1 - i]]

(***************************************************************************)
(* C29.  For every bucket content and every prefix, empty or not, an       *)
(* unlimited reverse iteration visits exactly the keys that begin with the *)
(* prefix, in descending key order: the reversal of what the unlimited     *)
(* forward iteration over the prefix visits.  Also for a prefix that ends  *)
(* in 0xFF, with keys of neighbouring prefixes in the bucket.              *)
(***************************************************************************)
C29_ReverseIsReversal ==
    (last.op = "RawIterate" /\ last.limit = 0 /\ last.direction = IterateReverse) =>
        /\ last.keys = Reverse(KeysWithPrefix(bkt, last.prefix))
        /\ last.keys =
              Reverse([i \in 1..Len(_RawIterateCore(bkt, last.prefix,
                                        ZeroWindow, 0).visited) |->
                          _RawIterateCore(bkt, last.prefix,
                                          ZeroWindow, 0).visited[i].key])

\* the first n elements of seq
Take(seq, n) == SubSeq(seq, 1, Min(n, Len(seq)))

(***************************************************************************)
(* C30.  Resuming in reverse: for every index state, term and limit        *)
(* L >= 1, a reverse call with limit L followed by a reverse call whose    *)
(* cursor is the key the first returned starts the second page at the      *)
(* cursor key and never above it, so that the two pages one after the      *)
(* other are the unlimited reverse sequence and hold no entry twice.       *)
(* Stated for term "a" of an index with fixed-width targets, on buckets    *)
(* that hold forward rows of that index only.                              *)
(***************************************************************************)
C30_ResumeReverse ==
    (/\ last.op = "RawResume"
     /\ \A i \in 1..Len(bkt) : bkt[i].key \in FixedRows
     /\ last.first.prefix = _TermKeyPrefix(<<97>>)
     /\ last.first.direction = IterateReverse
     /\ last.first.limit >= 1) =>
        LET all == Reverse(KeysWithPrefix(bkt, last.first.prefix))
        IN  /\ last.first.keys \o last.keys = all
            /\ last.keys # <<>> => ~BytesLess(last.first.next, last.keys[1])

(***************************************************************************)
(* Pagination: the caller's loop over ReadTermTargets, each call taking    *)
(* the key the previous one returned as its cursor, until nil is returned. *)
(***************************************************************************)

\* The pages of the loop from a cursor on: the keys and the targets of each
\* call.  The caller's loop has no bound; the model follows it for todo more
\* calls and reports whether nil had been returned by then.
RECURSIVE PageLoop(_, _, _, _, _)
PageLoop(b, term, limit, cursor, todo) ==
    LET r == ReadTermTargets(b, term, Window(limit, 0, cursor, IterateRegular))
    IN  IF r.next = Nil
        THEN [keys |-> <<r.keys>>, targets |-> <<r.targets>>, ended |-> TRUE]
        ELSE IF todo = 0
        THEN [keys |-> <<r.keys>>, targets |-> <<r.targets>>, ended |-> FALSE]
        ELSE LET rest == PageLoop(b, term, limit, r.next, todo - 1)
             IN  [keys    |-> <<r.keys>> \o rest.keys,
                  targets |-> <<r.targets>> \o rest.targets,
                  ended   |-> rest.ended]

\* the loop from the empty cursor; no call but the first leaves the cursor
\* where it was, so the bucket's length bounds the calls
Paginate(b, term, limit) == PageLoop(b, term, limit, Nil, Len(b) + 1)

CallPaginate(term, limit) ==
    /\ AfterWrite
    /\ last' = [op |-> "Paginate", term |-> term, limit |-> limit,
                out |-> Paginate(bkt, term, limit)]
    /\ UNCHANGED <<bkt, rel, script, wtx, rtx, kv, db, proc>>

NextPages ==
    \/ \E target \in Targets, terms \in TermMaps : SetTargetTerms(target, terms)
    \/ \E target \in Targets : DeleteTargetTerms(target)
    \/ \E term \in Terms, limit \in 1..MaxLimit : CallPaginate(term, limit)

SpecPages == Init /\ [][NextPages]_vars

(***************************************************************************)
(* C31.  Forward pagination terminates: from the empty cursor, calling     *)
(* ReadTermTargets(term, {Limit: L, Cursor: the key the previous call      *)
(* returned}) with L >= 1 until nil is returned takes finitely many calls, *)
(* and the pages one after another are the unlimited forward sequence of   *)
(* the term, each entry once.                                              *)
(***************************************************************************)
C31_PaginationCovers ==
    last.op = "Paginate" =>
        LET all == ReadTermTargets(bkt, last.term, ZeroWindow)
        IN  /\ last.out.ended
            /\ Flatten(last.out.keys) = all.keys
            /\ Flatten(last.out.targets) = all.targets
            /\ \A i \in 1..Len(last.out.keys) : Len(last.out.keys[i]) <= last.limit

\* two targets of a term read in pages of one
C31_Witness ==
    /\ last.op = "Paginate"
    /\ last.limit = 1
    /\ last.out.ended
    /\ Len(Flatten(last.out.targets)) = 2
    /\ Len(last.out.keys) >= 2
    /\ Len(last.out.keys[1]) = 1
    /\ Len(last.out.keys[2]) = 1

AllFF(prefix) == Len(prefix) > 0 /\ \A i \in 1..Len(prefix) : prefix[i] = 255

C34_NextPrefixIsLeastBound ==
    (last.op = "_NextPrefix" /\ last.s # Nil) =>
        /\ BytesLess(last.t, last.next)
        /\ \A u \in ByteStrings :
              ~(/\ ~HasPrefix(u, last.s)
                /\ \A t \in ByteStrings : HasPrefix(t, last.s) => BytesLess(t, u)
                /\ BytesLess(u, last.next))

(***************************************************************************)
(* Scanning a typed bucket from a key                                      *)
(***************************************************************************)

\* IterateBucketFrom(tx, info, startKey, visitFn) under a visitor that never
\* halts: the ids and items handed to the visitor and the returned key
IterateBucketFrom(b, startKey) ==
    LET r == _RawIterateCore(b, KeyPackFn(startKey), ZeroWindow, 0)
    IN  [ids   |-> [i \in 1..Len(r.visited) |-> KeyUnpackFn(r.visited[i].key)],
         items |-> ItemsOf(r.visited),
         next  |-> r.next]

CallScanList(startKey, count) ==
    /\ last' = [op |-> "ScanList", startKey |-> startKey, count |-> count,
                out |-> ScanList(bkt, startKey, count)]
    /\ UNCHANGED <<bkt, rel, script, wtx, rtx, kv, db, proc>>

CallIterateBucketFrom(startKey) ==
    /\ last' = [op |-> "IterateBucketFrom", startKey |-> startKey,
                out |-> IterateBucketFrom(bkt, startKey)]
    /\ UNCHANGED <<bkt, rel, script, wtx, rtx, kv, db, proc>>

NextScan ==
    \/ \E id \in Ids, item \in Items : AfterBucketWrite /\ CallWrite(id, item)
    \/ \E id \in Ids : AfterBucketWrite /\ CallDelete(id)
    \/ \E id \in Ids, n \in 0..MaxBatch : AfterBucketWrite /\ CallScanList(id, n)
    \/ \E id \in Ids : AfterBucketWrite /\ CallIterateBucketFrom(id)

SpecScan == Init /\ [][NextScan]_vars

\* the ids of S in ascending order
RECURSIVE AscendingIds(_)
AscendingIds(S) ==
    IF S = {} THEN <<>>
    ELSE LET m == CHOOSE x \in S : \A y \in S : x <= y
         IN  <<m>> \o AscendingIds(S \ {m})

\* the ids written to the bucket that are at or above startKey, ascending
IdsFrom(startKey) == AscendingIds({id \in DOMAIN kv : id >= startKey})

(***************************************************************************)
(* C35 as stated.  For every count >= 0, ScanList(startKey, count) appends exactly   *)
(* min(count, n) items, n being the number of entries with key >= startKey,*)
(* taken in ascending key order from the first such entry; done is true    *)
(* exactly when no entry remains after the appended ones, and otherwise    *)
(* nextKey is the key of the first entry not appended.                     *)
(***************************************************************************)
C35_ScanListTakesCount ==
    last.op = "ScanList" =>
        LET from == IdsFrom(last.startKey)
            n    == Len(from)
            m    == Min(last.count, n)
        IN  /\ last.out.items = [i \in 1..m |-> kv[from[i]]]
            /\ last.out.done <=> (m = n)
            /\ ~last.out.done => last.out.nextKey = from[m + 1]

(***************************************************************************)
(* C35.  For every count >= 1, ScanList(startKey, count) appends exactly   *)
(* min(count, n) items, n being the number of entries with key >= startKey,*)
(* taken in ascending key order from the first such entry; done is true    *)
(* exactly when no entry remains after the appended ones, and otherwise    *)
(* nextKey is the key of the first entry not appended.  With count = 0 the *)
(* engine's limit is 0, which is no limit: all n items are appended and    *)
(* done is true.                                                           *)
(***************************************************************************)
C35_ScanListTakesPositiveCount ==
    last.op = "ScanList" =>
        LET from == IdsFrom(last.startKey)
            n    == Len(from)
            m    == IF last.count = 0 THEN n ELSE Min(last.count, n)
        IN  /\ last.out.items = [i \in 1..m |-> kv[from[i]]]
            /\ last.out.done <=> (m = n)
            /\ ~last.out.done => last.out.nextKey = from[m + 1]

\* a scan from id 2 for one item of a bucket holding ids 1, 2 and 256: the
\* item of 2 is appended and the scan is to go on from 256
C35_Witness ==
    /\ last.op = "ScanList"
    /\ last.startKey = 2
    /\ last.count = 1
    /\ DOMAIN kv = {1, 2, 256}
    /\ last.out.items = <<kv[2]>>
    /\ ~last.out.done
    /\ last.out.nextKey = 256

(***************************************************************************)
(* C36.  IterateBucketFrom(startKey) lets the caller name the starting     *)
(* key: under a visitor that never halts it visits, in ascending key       *)
(* order, every bucket entry whose key is greater than or equal to         *)
(* startKey, not only the entry stored under startKey itself.              *)
(***************************************************************************)
C36_IterateFromStartKey ==
    last.op = "IterateBucketFrom" =>
        LET from == IdsFrom(last.startKey)
        IN  /\ last.out.ids = from
            /\ last.out.items = [i \in 1..Len(from) |-> kv[from[i]]]

(***************************************************************************)
(* C37.  The result of SetTargetTerms is deterministic: for every starting *)
(* state, target and desired map, the bucket it leaves (forward, reverse   *)
(* and count rows) is the same whatever order the entries of the delete    *)
(* set and of the add set are applied in, also when terms change priority. *)
(***************************************************************************)
C37_OrderIndependent ==
    [][last'.op = "SetTargetTerms" =>
          SetTargetTermsOutcomes(bkt, last'.target, last'.terms) = {bkt'}]_vars

\* a call that moved both terms of a target to another priority: two
\* entries in the delete set and two in the add set, four pairs of orders
C37_Witness ==
    /\ last.op = "SetTargetTerms"
    /\ last.repri = Terms
    /\ \E t \in Terms : last.terms[t] # last.terms[CHOOSE u \in Terms : u # t]

(***************************************************************************)
(* Sub-buckets of the database file                                        *)
(***************************************************************************)

\* TxRawBucket(tx, name): the sub-bucket, nil when there is none and the
\* transaction is read-only; a writable transaction creates it.  db is the
\* database as the transaction sees it afterwards.
TxRawBucket(d, name, writable) ==
    IF name \in DOMAIN d THEN [nil |-> FALSE, b |-> d[name], db |-> d]
    ELSE IF writable
         THEN [nil |-> FALSE, b |-> <<>>, db |-> MapSet(d, name, <<>>)]
         ELSE [nil |-> TRUE, b |-> <<>>, db |-> d]

(***************************************************************************)
(* Database processes: ApplyDBProcess and RunProcess                       *)
(***************************************************************************)

\* var DBProcesses = Bucket(&dbInfo, "proc", vpack.StringZ, vpack.UnixTime)
DBProcesses == "proc"

\* vpack.UnixTime writes the time as its seconds since the epoch
UnixTime(ts) == VInt(ts)

\* the times time.Now() returns
Stamps == {1, 2}

\* Read(tx, DBProcesses, name, &ts) in the read-only transaction of
\* ApplyDBProcess: whether the process is on record
ReadDBProcess(d, name) ==
    LET r == TxRawBucket(d, DBProcesses, FALSE)
    IN  IF r.nil THEN FALSE
        ELSE IF name = Nil THEN FALSE
        ELSE Get(r.b, StringZ(name)) # Nil

\* Write(tx, DBProcesses, name, &ts) and tx.Commit() in the writable
\* transaction of ApplyDBProcess: the database afterwards
WriteDBProcess(d, name, ts) ==
    IF name = Nil THEN d
    ELSE LET r == TxRawBucket(d, DBProcesses, TRUE)
         IN  MapSet(r.db, DBProcesses, Put(r.b, StringZ(name), UnixTime(ts)))

\* a goroutine calls ApplyDBProcess(db, name, processFn) or
\* RunProcess(label, processFn) and reaches _takeTurns.Lock()
ProcCall(c, kind, name) ==
    /\ proc.pc[c] = "idle"
    /\ proc.left[c] > 0
    /\ proc' = [proc EXCEPT !.pc[c] = "lock", !.kind[c] = kind,
                            !.name[c] = name, !.left[c] = @ - 1]
    /\ UNCHANGED <<bkt, rel, last, script, wtx, rtx, kv, db>>

\* _takeTurns.Lock() returns; RunProcess goes on to call processFn
ProcLock(c) ==
    /\ proc.pc[c] = "lock"
    /\ proc.mutex = 0
    /\ proc' = [proc EXCEPT !.mutex = c,
                            !.pc[c] = IF proc.kind[c] = "ApplyDBProcess"
                                      THEN "read" ELSE "run"]
    /\ UNCHANGED <<bkt, rel, last, script, wtx, rtx, kv, db>>

\* ApplyDBProcess reads the record of the name and returns when it finds
\* one, or else calls processFn
ProcRead(c) ==
    /\ proc.pc[c] = "read"
    /\ LET shouldRun == ~ReadDBProcess(db, proc.name[c])
       IN  proc' = IF shouldRun
                   THEN [proc EXCEPT !.pc[c] = "run",
                                     !.runs[proc.name[c]] = @ + 1]
                   ELSE [proc EXCEPT !.pc[c] = "unlock"]
    /\ UNCHANGED <<bkt, rel, last, script, wtx, rtx, kv, db>>

\* processFn returns
ProcEnd(c) ==
    /\ proc.pc[c] = "run"
    /\ proc' = [proc EXCEPT !.pc[c] = IF proc.kind[c] = "ApplyDBProcess"
                                      THEN "write" ELSE "unlock"]
    /\ UNCHANGED <<bkt, rel, last, script, wtx, rtx, kv, db>>

\* ApplyDBProcess records the name with the time in a writable transaction
ProcWrite(c, ts) ==
    /\ proc.pc[c] = "write"
    /\ db' = WriteDBProcess(db, proc.name[c], ts)
    /\ proc' = [proc EXCEPT !.pc[c] = "unlock"]
    /\ UNCHANGED <<bkt, rel, last, script, wtx, rtx, kv>>

\* the deferred _takeTurns.Unlock(), and the call returns
ProcUnlock(c) ==
    /\ proc.pc[c] = "unlock"
    /\ proc' = [proc EXCEPT
                   !.mutex = 0,
                   !.pc[c] = "idle",
                   !.completed = IF proc.kind[c] = "ApplyDBProcess"
                                 THEN @ \cup {proc.name[c]} ELSE @]
    /\ UNCHANGED <<bkt, rel, last, script, wtx, rtx, kv, db>>

NextProc ==
    \/ \E c \in Callers, kind \in {"ApplyDBProcess", "RunProcess"},
          name \in ProcNames : ProcCall(c, kind, name)
    \/ \E c \in Callers : ProcLock(c)
    \/ \E c \in Callers : ProcRead(c)
    \/ \E c \in Callers : ProcEnd(c)
    \/ \E c \in Callers, ts \in Stamps : ProcWrite(c, ts)
    \/ \E c \in Callers : ProcUnlock(c)

SpecProc == Init /\ [][NextProc]_vars

\* the callers whose process function is running
Running == {c \in Callers : proc.pc[c] = "run"}

(***************************************************************************)
(* C38.  For every process name and every interleaving of concurrent       *)
(* ApplyDBProcess / RunProcess calls on one database, no two process       *)
(* functions run at the same time, and the process function of a given     *)
(* name runs at most once: after one ApplyDBProcess call for that name has *)
(* completed, every later call with the same name returns without running  *)
(* its process function.                                                   *)
(***************************************************************************)
C38_TakeTurnsRunOnce ==
    /\ [](Cardinality(Running) <= 1)
    /\ [](\A n \in ProcNames : proc.runs[n] <= 1)
    /\ [][\A c \in Callers :
             (proc.pc[c] = "read" /\ proc'.pc[c] = "run") =>
                 proc.name[c] \notin proc.completed]_vars

(***************************************************************************)
(* Typed reads when the sub-bucket may be missing                          *)
(***************************************************************************)

RawHasKey_noNilCheck(r, key) ==
    [panic |-> r.nil, has |-> ~r.nil /\ HasEntry(r.b, key)]

\* RawHasKey(bkt, key) on the bucket TxRawBucket returned: false for nil
RawHasKey(r, key) ==
    IF r.nil THEN [panic |-> FALSE, has |-> FALSE]
    ELSE [panic |-> FALSE, has |-> HasEntry(r.b, key)]

\* HasKey(tx, info, id) in a transaction on database d: what it returns,
\* whether it panics, and the database as the transaction then sees it
TxHasKey(d, name, writable, id) ==
    LET r == TxRawBucket(d, name, writable)
        h == RawHasKey(r, KeyPackFn(id))
    IN  [db |-> r.db, panic |-> h.panic, ok |-> h.has]

\* Read(tx, info, id, &item): _Read answers false for a nil bucket
TxRead(d, name, writable, id) ==
    LET r == TxRawBucket(d, name, writable)
    IN  [db |-> r.db, panic |-> FALSE,
         ok |-> IF r.nil THEN FALSE ELSE _Read(r.b, id).ok]

\* ReadSlice(tx, info, ids, &list): 0 for a nil bucket
TxReadSlice(d, name, writable, ids, list) ==
    LET r == TxRawBucket(d, name, writable)
        s == IF r.nil THEN [list |-> list, count |-> 0]
             ELSE ReadSlice(r.b, ids, list)
    IN  [db |-> r.db, panic |-> FALSE, list |-> s.list, count |-> s.count]

\* ReadSliceToMap(tx, info, ids, itemsMap): 0 for a nil bucket
TxReadSliceToMap(d, name, writable, ids, itemsMap) ==
    LET r == TxRawBucket(d, name, writable)
        s == IF r.nil THEN [map |-> itemsMap, count |-> 0]
             ELSE ReadSliceToMap(r.b, ids, itemsMap)
    IN  [db |-> r.db, panic |-> FALSE, map |-> s.map, count |-> s.count]

\* Write(tx, info, id, item) in a writable transaction: the zero id returns
\* before the sub-bucket is looked up
TxWrite(d, name, id, item) ==
    IF id = ZeroId THEN d
    ELSE LET r == TxRawBucket(d, name, TRUE)
         IN  MapSet(r.db, name, Write(r.b, id, item))

\* the sub-buckets, ids and id lists tried
BucketNames == {"users", "posts"}
FewIds == {ZeroId, 1, 2}
MaxFewIds == 2
FewIdLists == UNION {[1..n -> FewIds] : n \in 0..MaxFewIds}

\* a writable transaction that writes one item and commits or rolls back
DbWrite(name, id, item, commit) ==
    /\ db' = IF commit THEN TxWrite(db, name, id, item) ELSE db
    /\ last' = [op |-> "DbWrite", name |-> name, id |-> id]
    /\ UNCHANGED <<bkt, rel, script, wtx, rtx, kv, proc>>

\* a transaction that makes one typed read and, when writable, commits or
\* rolls back
DbRead(op, name, writable, commit, out) ==
    /\ db' = IF writable /\ commit /\ ~out.panic THEN out.db ELSE db
    /\ last' = [op |-> op, name |-> name, writable |-> writable,
                before |-> db, out |-> out]
    /\ UNCHANGED <<bkt, rel, script, wtx, rtx, kv, proc>>

AfterDbWrite == last.op \in {"none", "DbWrite"}

NextMissing ==
    \/ \E name \in BucketNames, id \in FewIds, item \in Items,
          commit \in BOOLEAN :
          AfterDbWrite /\ DbWrite(name, id, item, commit)
    \/ \E name \in BucketNames, id \in FewIds, w, commit \in BOOLEAN :
          AfterDbWrite
          /\ DbRead("HasKey", name, w, commit, TxHasKey(db, name, w, id))
    \/ \E name \in BucketNames, id \in FewIds, w, commit \in BOOLEAN :
          AfterDbWrite
          /\ DbRead("Read", name, w, commit, TxRead(db, name, w, id))
    \/ \E name \in BucketNames, ids \in FewIdLists, w, commit \in BOOLEAN,
          list \in {<<>>, <<ZeroItem>>} :
          AfterDbWrite
          /\ DbRead("ReadSlice", name, w, commit,
                    [given |-> list] @@ TxReadSlice(db, name, w, ids, list))
    \/ \E name \in BucketNames, ids \in FewIdLists, w, commit \in BOOLEAN,
          m \in {NoItems, MapSet(NoItems, 2, ZeroItem)} :
          AfterDbWrite
          /\ DbRead("ReadSliceToMap", name, w, commit,
                    [given |-> m] @@ TxReadSliceToMap(db, name, w, ids, m))

SpecMissing == Init /\ [][NextMissing]_vars

TypedReads == {"HasKey", "Read", "ReadSlice", "ReadSliceToMap"}

(***************************************************************************)
(* C39.  In a read-only transaction on a database where the named          *)
(* sub-bucket does not exist, Read and HasKey return false and ReadSlice   *)
(* and ReadSliceToMap return 0, without a panic, without appending or      *)
(* setting anything and without creating the sub-bucket; in a writable     *)
(* transaction the missing sub-bucket is created on first access.          *)
(***************************************************************************)
C39_MissingBucketReads ==
    (last.op \in TypedReads /\ last.name \notin DOMAIN last.before) =>
        /\ ~last.out.panic
        /\ last.op \in {"HasKey", "Read"} => ~last.out.ok
        /\ last.op \in {"ReadSlice", "ReadSliceToMap"} => last.out.count = 0
        /\ last.op = "ReadSlice" => last.out.list = last.out.given
        /\ last.op = "ReadSliceToMap" => last.out.map = last.out.given
        /\ IF last.writable
           THEN /\ last.name \in DOMAIN last.out.db
                /\ last.out.db[last.name] = <<>>
           ELSE /\ last.out.db = last.before
                /\ db = last.before

\* HasKey of id 1 in a read-only transaction on a database that has the
\* sub-bucket "posts", holding id 1, and no sub-bucket "users"
C39_Witness ==
    /\ last.op = "HasKey"
    /\ ~last.writable
    /\ last.name = "users"
    /\ DOMAIN db = {"posts"}
    /\ HasKey(db["posts"], 1)
    /\ ~last.out.ok

(***************************************************************************)
(* Backup and restore of raw sub-buckets                                   *)
(***************************************************************************)

BUCKET_HEADER == 1
ITEM_HEADER == 2

\* the length as a uvarint, then the bytes
_BackupWriteBuffer(buf) == UVarint(Len(buf)) \o buf

_BackupWriteBucketHeader(bucketNameBytes) ==
    <<BUCKET_HEADER>> \o _BackupWriteBuffer(bucketNameBytes)

_BackupWriteItem(key, value) ==
    <<ITEM_HEADER>> \o _BackupWriteBuffer(key) \o _BackupWriteBuffer(value)

\* bkt.ForEach writing every item, in key order
RECURSIVE BackupItems(_)
BackupItems(b) ==
    IF b = <<>> THEN <<>>
    ELSE _BackupWriteItem(Head(b).key, Head(b).value) \o BackupItems(Tail(b))

\* BackupBuckets(db, out, bucketNames...): the bytes written to out.  A name
\* without a sub-bucket is skipped.
RECURSIVE BackupBuckets(_, _)
BackupBuckets(d, bucketNames) ==
    IF bucketNames = <<>> THEN <<>>
    ELSE LET name == Head(bucketNames)
             rest == BackupBuckets(d, Tail(bucketNames))
         IN  IF name \notin DOMAIN d THEN rest
             ELSE _BackupWriteBucketHeader(name) \o BackupItems(d[name]) \o rest

\* ChannelError(&target, err)
ChannelError(target, err) == IF err # "nil" THEN err ELSE target

\* a _BackupReader at the start of its input
NewReader == [pos |-> 1, err |-> "nil"]

\* _BackupReadByte: 0 once the reader has an error; EOF at the end of input
_BackupReadByte(in, rd) ==
    IF rd.err # "nil" THEN [b |-> 0, rd |-> rd]
    ELSE IF rd.pos > Len(in) THEN [b |-> 0, rd |-> [rd EXCEPT !.err = "EOF"]]
    ELSE [b |-> in[rd.pos], rd |-> [rd EXCEPT !.pos = @ + 1]]

\* binary.ReadUvarint: EOF when no byte is left, ErrUnexpectedEOF when the
\* input ends inside the number
RECURSIVE ReadUvarint(_, _, _)
ReadUvarint(in, pos, i) ==
    IF pos > Len(in)
    THEN [val |-> 0, pos |-> pos,
          err |-> IF i > 0 THEN "ErrUnexpectedEOF" ELSE "EOF"]
    ELSE IF in[pos] < 128 THEN [val |-> in[pos], pos |-> pos + 1, err |-> "nil"]
    ELSE LET r == ReadUvarint(in, pos + 1, i + 1)
         IN  [val |-> (in[pos] - 128) + 128 * r.val, pos |-> r.pos,
              err |-> r.err]

\* _BackupReadBuffer: nil once the reader has an error; else the size, then
\* bytes.Reader.Read into a buffer of that size, which answers EOF when no
\* byte is left, also for a buffer of size 0
_BackupReadBuffer(in, rd) ==
    IF rd.err # "nil" THEN [buf |-> Nil, rd |-> rd]
    ELSE LET u    == ReadUvarint(in, rd.pos, 0)
             err1 == ChannelError(rd.err, u.err)
             left == Len(in) - u.pos + 1
             n    == IF left <= 0 THEN 0 ELSE Min(u.val, left)
             err2 == ChannelError(err1, IF left <= 0 THEN "EOF" ELSE "nil")
         IN  [buf |-> SubSeq(in, u.pos, u.pos + n - 1),
              rd  |-> [pos |-> u.pos + n, err |-> err2]]

\* const txThreshold = 1024 * 4, scaled down
txThreshold == 1

\* RestoreBuckets as it starts: tx is the database as the open writable
\* transaction sees it, committed the database file
RestoreStart(d) ==
    [rd |-> NewReader, tx |-> d, committed |-> d, bucketName |-> Nil,
     bucketNil |-> TRUE, writesCount |-> 0, commits |-> 0, panic |-> FALSE]

\* case BUCKET_HEADER
RestoreBucketHeader(in, st) ==
    LET n == _BackupReadBuffer(in, st.rd)
        r == TxRawBucket(st.tx, n.buf, TRUE)
    IN  [st EXCEPT !.rd = n.rd, !.bucketName = n.buf, !.tx = r.db,
                   !.bucketNil = FALSE]

RestoreItem_stopOnError(in, st) ==
    LET k == _BackupReadBuffer(in, st.rd)
        v == _BackupReadBuffer(in, k.rd)
    IN  IF v.rd.err # "nil" THEN [st EXCEPT !.rd = v.rd]
        ELSE IF st.bucketNil THEN [st EXCEPT !.rd = v.rd, !.panic = TRUE]
        ELSE LET p == BoltPut(st.tx[st.bucketName], k.buf, v.buf, TRUE)
             IN  IF p.err # "nil" THEN [st EXCEPT !.rd = v.rd, !.panic = TRUE]
                 ELSE LET tx == MapSet(st.tx, st.bucketName, p.b)
                      IN  IF st.writesCount + 1 > txThreshold
                          THEN [st EXCEPT !.rd = v.rd, !.tx = tx,
                                          !.committed = tx, !.writesCount = 0,
                                          !.commits = @ + 1]
                          ELSE [st EXCEPT !.rd = v.rd, !.tx = tx,
                                          !.writesCount = @ + 1]

\* case ITEM_HEADER: the key and the value are read and put, whatever the
\* reader's error; past txThreshold writes the transaction is committed and
\* another one begun.  RawMustPut panics on a nil bucket and on bolt's error.
RestoreItem(in, st) ==
    LET k == _BackupReadBuffer(in, st.rd)
        v == _BackupReadBuffer(in, k.rd)
    IN  IF st.bucketNil THEN [st EXCEPT !.rd = v.rd, !.panic = TRUE]
        ELSE LET p == BoltPut(st.tx[st.bucketName], k.buf, v.buf, TRUE)
             IN  IF p.err # "nil" THEN [st EXCEPT !.rd = v.rd, !.panic = TRUE]
                 ELSE LET tx == MapSet(st.tx, st.bucketName, p.b)
                      IN  IF st.writesCount + 1 > txThreshold
                          THEN [st EXCEPT !.rd = v.rd, !.tx = tx,
                                          !.committed = tx, !.writesCount = 0,
                                          !.commits = @ + 1]
                          ELSE [st EXCEPT !.rd = v.rd, !.tx = tx,
                                          !.writesCount = @ + 1]

\* the loop of RestoreBuckets; the default case commits and returns nil for
\* EOF and the reader's error otherwise.  A panic leaves what was committed.
RECURSIVE RestoreLoop(_, _)
RestoreLoop(in, st) ==
    LET h == _BackupReadByte(in, st.rd)
        s == [st EXCEPT !.rd = h.rd]
    IN  IF h.b = BUCKET_HEADER THEN RestoreLoop(in, RestoreBucketHeader(in, s))
        ELSE IF h.b = ITEM_HEADER
        THEN LET t == RestoreItem(in, s)
             IN  IF t.panic
                 THEN [db |-> t.committed, err |-> "panic", commits |-> t.commits]
                 ELSE RestoreLoop(in, t)
        ELSE [db |-> s.tx, commits |-> s.commits + 1,
              err |-> IF s.rd.err = "EOF" THEN "nil" ELSE s.rd.err]

\* RestoreBuckets(db, in): the database it leaves, the error it returns and
\* the number of transactions it committed
RestoreBuckets(d, in) == RestoreLoop(in, RestoreStart(d))

\* the sub-bucket names, keys and values tried, and the most names handed to
\* BackupBuckets
BackupNames == {<<97>>, <<98>>}
BackupKeys == {<<1>>, <<2>>, <<2, 0>>}
BackupValues == {<<>>, <<7>>}
MaxBackupNames == 2
BackupNameLists == UNION {[1..n -> BackupNames] : n \in 0..MaxBackupNames}

\* a committed write of one raw entry
RawPut(name, key, value) ==
    /\ db' = LET r == TxRawBucket(db, name, TRUE)
             IN  MapSet(r.db, name, BoltPut(r.b, key, value, TRUE).b)
    /\ last' = [op |-> "RawPut", name |-> name, key |-> key]
    /\ UNCHANGED <<bkt, rel, script, wtx, rtx, kv, proc>>

CallBackupBuckets(bucketNames) ==
    /\ last.op \in {"none", "RawPut"}
    /\ last' = [op |-> "BackupBuckets", bucketNames |-> bucketNames,
                stream |-> BackupBuckets(db, bucketNames)]
    /\ UNCHANGED <<bkt, rel, script, wtx, rtx, kv, db, proc>>

\* the stream of the backup restored into an empty database
CallRestoreBuckets ==
    /\ last.op = "BackupBuckets"
    /\ last' = [op |-> "RestoreBuckets", bucketNames |-> last.bucketNames,
                stream |-> last.stream,
                out |-> RestoreBuckets(NoBuckets, last.stream)]
    /\ UNCHANGED <<bkt, rel, script, wtx, rtx, kv, db, proc>>

NextBackup ==
    \/ \E name \in BackupNames, key \in BackupKeys, value \in BackupValues :
          last.op \in {"none", "RawPut"} /\ RawPut(name, key, value)
    \/ \E names \in BackupNameLists : CallBackupBuckets(names)
    \/ CallRestoreBuckets

SpecBackup == Init /\ [][NextBackup]_vars

(***************************************************************************)
(* C40.  Restoring the stream that BackupBuckets wrote for a set of        *)
(* existing buckets into an empty database yields, for each of those       *)
(* buckets, exactly the same key/value pairs, also for entries with empty  *)
(* values and for buckets with more items than one commit batch, and       *)
(* RestoreBuckets returns no error when the stream ends after a complete   *)
(* record.                                                                 *)
(***************************************************************************)
C40_BackupRestoreRoundTrip ==
    last.op = "RestoreBuckets" =>
        LET named == {last.bucketNames[i] : i \in 1..Len(last.bucketNames)}
        IN  /\ last.out.err = "nil"
            /\ DOMAIN last.out.db = named \cap DOMAIN db
            /\ \A name \in named \cap DOMAIN db : last.out.db[name] = db[name]

\* a bucket of three items, restored in two transactions, whose last item,
\* the end of the stream, has an empty value; and a second bucket not named
C40_Witness ==
    /\ last.op = "RestoreBuckets"
    /\ last.bucketNames = <<<<97>>>>
    /\ DOMAIN db = BackupNames
    /\ Len(db[<<97>>]) = 3
    /\ db[<<97>>][3].value = <<>>
    /\ db[<<97>>][1].value # <<>>
    /\ last.out.commits = 2
    /\ last.out.db[<<97>>] = db[<<97>>]

====
